---- MODULE Spec2Model ----
(***************************************************************************)
(* podsync-companion: the background job processor (app/worker.py), the    *)
(* HTTP handlers that feed it (app/main.py) and the feed merge engine.     *)
(*                                                                         *)
(* Spec       the job queue, the worker loop and the HTTP layer            *)
(* MergeSpec  regenerate_merged_feeds applied to bounded inputs            *)
(***************************************************************************)
EXTENDS Integers, Sequences, FiniteSets, TLC

(* ------------------------------ bounds --------------------------------- *)
\* rows the jobs table may hold
MaxJobs == 2
\* times the clock (datetime.utcnow) moves on
MaxTicks == 1
\* rows the channels table may hold
MaxChannels == 1

(* --------------------------- value domains ----------------------------- *)
\* strings the code takes apart are sequences of one-character strings
Vid1 == <<"v","i","d","e","o","1">>
Vid2 == <<"v","i","d","e","o","2">>
VideoIds == {Vid1, Vid2}
\* source URLs a channel is registered or configured with
UrlA == <<"u","a">>
UrlASlash == <<"u","a","/">>
UrlB == <<"u","b">>
NoDate == -1
NoRow == [status |-> "none"]
NoJob == 0
NoExc == "none"

VARIABLES
  jobs,          \* the jobs table: jobs[i] is the row with id i
  downloads,     \* the downloads table, by video id (NoRow: no row)
  videos,        \* the videos table: a set of rows
  channels,      \* the channels table: channels[i] is the row with id i
  media_files,   \* names present in settings.media_dir
  manual_feed,   \* items of settings.manual_feed_file ("absent": no file)
  merged_files,  \* stems of the *.xml files in settings.merged_feed_dir
  now,           \* the clock
  stop_event,    \* main.stop_event
  w_pc,          \* where the worker thread is
  w_job,         \* process_next_job: job_id
  w_exc,         \* process_next_job: the exception being handled
  w_video,       \* _handle_download: video
  w_path,        \* _handle_download: media_path
  next_feed_sync_at, \* worker_loop: next_feed_sync_at
  podsync_feeds, \* the third-party feeds under settings.podsync_data_dir
  http           \* the enqueue requests in flight: what each has read and will write

\* the threads of the HTTP layer that handle enqueue requests
NumHandlers == 2
Handlers == 1..NumHandlers
\* a handler between requests, and all of them so
NoRequest == [phase |-> "idle"]
NoRequests == [h \in Handlers |-> NoRequest]

db_vars == <<jobs, downloads, videos, channels>>
file_vars == <<media_files, manual_feed, merged_files>>
w_vars == <<w_pc, w_job, w_exc, w_video, w_path, next_feed_sync_at>>
vars == <<jobs, downloads, videos, channels, media_files, manual_feed,
          merged_files, now, stop_event, w_pc, w_job, w_exc, w_video, w_path,
          next_feed_sync_at, podsync_feeds, http>>

(* ------------------------------ helpers -------------------------------- *)
Range(s) == {s[i] : i \in DOMAIN s}

Min(S) == CHOOSE x \in S : \A y \in S : x <= y

\* settings.podsync_feed_sync_interval_seconds
podsync_feed_sync_interval_seconds == 300

\* str(exc): the message each exception carries
StrExc(exc) ==
  CASE exc = "unknown_job_type"  -> "unknown job type"
    [] exc = "channel_not_found" -> "channel not found"
    [] exc = "video_not_found"   -> "video not found in index"
    [] exc = "multiple_rows"     -> "Multiple rows were found when one or none was required"
    [] exc = "integrity"         -> "UNIQUE constraint failed"
    [] exc = "command_failed"    -> "Command failed"
    [] exc = "os_error"          -> "OSError"

\* Job.payload: {"channel_id": ...}, {"video_id": ...} or {}
Payload(channel_id, video_id) == [channel_id |-> channel_id, video_id |-> video_id]
NoPayload == Payload(0, <<>>)

\* models.Job as the HTTP layer inserts it (error "": None). The timestamps of a
\* Job are written and never read, and are left out
NewJob(job_type, payload) ==
  [job_type |-> job_type, status |-> "pending", payload |-> payload, error |-> ""]

\* models.Download
DownloadRow(status, error, filename, updated_at) ==
  [status |-> status, error |-> error, filename |-> filename, updated_at |-> updated_at]

NoFilename == <<>>

HasRow(dl, vid) == dl[vid].status # "none"

(* ------------------------------ strings -------------------------------- *)
\* the characters of the model's strings, in code point order
AsciiOrder ==
  <<" ", "#", "&", "-", ".", "/", "0", "1", "2", "3", "4", "5", "6", "7", "8",
    "9", ":", "=", "?", "A", "B", "C", "D", "E", "F", "G", "H", "I", "J", "K",
    "L", "M", "N", "O", "P", "Q", "R", "S", "T", "U", "V", "W", "X", "Y", "Z",
    "_", "a", "b", "c", "d", "e", "f", "g", "h", "i", "j", "k", "l", "m", "n",
    "o", "p", "q", "r", "s", "t", "u", "v", "w", "x", "y", "z">>

CodePoints == [c \in Range(AsciiOrder) |-> CHOOSE i \in DOMAIN AsciiOrder : AsciiOrder[i] = c]
\* ord(c), up to the order
Ord(c) == CodePoints[c]

Digits == <<"0", "1", "2", "3", "4", "5", "6", "7", "8", "9">>
UpperCase == <<"A", "B", "C", "D", "E", "F", "G", "H", "I", "J", "K", "L", "M", "N",
               "O", "P", "Q", "R", "S", "T", "U", "V", "W", "X", "Y", "Z">>
LowerCase == <<"a", "b", "c", "d", "e", "f", "g", "h", "i", "j", "k", "l", "m", "n",
               "o", "p", "q", "r", "s", "t", "u", "v", "w", "x", "y", "z">>
DigitChars == Range(Digits)
UpperChars == Range(UpperCase)
\* \w
WordChars == DigitChars \cup UpperChars \cup Range(LowerCase) \cup {"_"}
\* [A-Za-z0-9_-]
IdChars == WordChars \cup {"-"}

IsDigit(c) == c \in DigitChars
DigitVals == [c \in DigitChars |-> (CHOOSE i \in DOMAIN Digits : Digits[i] = c) - 1]
DigitVal(c) == DigitVals[c]
IsWordChar(c) == c \in WordChars
IsIdChar(c) == c \in IdChars
\* \s
IsSpace(c) == c = " "
\* str.lower(), one character
LowerOf == [c \in UpperChars |-> LowerCase[CHOOSE i \in DOMAIN UpperCase : UpperCase[i] = c]]
Lower(c) == IF c \in UpperChars THEN LowerOf[c] ELSE c

\* str.__lt__: lexicographic by code point
RECURSIVE StrLess(_, _)
StrLess(a, b) ==
  IF b = <<>> THEN FALSE
  ELSE IF a = <<>> THEN TRUE
  ELSE IF a[1] # b[1] THEN Ord(a[1]) < Ord(b[1])
  ELSE StrLess(Tail(a), Tail(b))

\* str.strip()
RECURSIVE LStrip(_)
LStrip(s) == IF s # <<>> /\ IsSpace(s[1]) THEN LStrip(Tail(s)) ELSE s
RECURSIVE RStrip(_)
RStrip(s) ==
  IF s # <<>> /\ IsSpace(s[Len(s)]) THEN RStrip(SubSeq(s, 1, Len(s) - 1)) ELSE s
Strip(s) == LStrip(RStrip(s))

\* s[i:].startswith(lit)
StartsAt(s, i, lit) ==
  /\ i >= 1
  /\ i + Len(lit) - 1 <= Len(s)
  /\ \A k \in 1..Len(lit) : s[i + k - 1] = lit[k]

\* how many characters from position i on satisfy [A-Za-z0-9_-], counted up to cap
RECURSIVE IdRun(_, _, _)
IdRun(s, i, cap) ==
  IF cap = 0 \/ i > Len(s) \/ ~IsIdChar(s[i]) THEN 0 ELSE 1 + IdRun(s, i + 1, cap - 1)

\* the shortest and the longest id the patterns accept: {6,20}
IdMinLen == 6
IdMaxLen == 20

\* re.search(lit + r"([A-Za-z0-9_-]{6,20})", s).group(1), <<>> when there is no match
IdAfter(s, from) == SubSeq(s, from, from + IdRun(s, from, IdMaxLen) - 1)
FirstIdAfter(s, lits, hits) ==
  IF hits = {} THEN <<>>
  ELSE IdAfter(s, Min(hits) + Len(CHOOSE l \in lits : StartsAt(s, Min(hits), l)))
SearchIdAfter(s, lits) ==
  FirstIdAfter(s, lits,
               {i \in 1..Len(s) : \E lit \in lits :
                  StartsAt(s, i, lit) /\ IdRun(s, i + Len(lit), IdMaxLen) >= IdMinLen})

\* re.fullmatch(r"[A-Za-z0-9_-]{6,20}", s)
FullMatchId(s) ==
  Len(s) >= IdMinLen /\ Len(s) <= IdMaxLen /\ \A i \in 1..Len(s) : IsIdChar(s[i])

\* worker._extract_video_id
\* text is the stripped value, m1 and m2 what the two searches captured
FirstIdMatch(text, m1, m2) ==
  IF text = <<>> THEN <<>>
  ELSE IF m1 # <<>> THEN m1
  ELSE IF m2 # <<>> THEN m2
  ELSE IF FullMatchId(text) THEN text
  ELSE <<>>
ExtractFromText(text) ==
  FirstIdMatch(text,
               SearchIdAfter(text, {<<"?","v","=">>, <<"&","v","=">>}),
               SearchIdAfter(text, {<<"y","o","u","t","u",".","b","e","/">>}))
_extract_video_id(value) == ExtractFromText(Strip(value))

(* ----------------------- video_id.extract_video_id ---------------------- *)
\* YOUTUBE_VIDEO_ID_RE: exactly this many id characters
YoutubeIdLen == 11

\* URL_VIDEO_ID_PATTERNS, in order: the literals each pattern accepts before the id
URL_VIDEO_ID_PATTERNS ==
  <<{<<"?","v","=">>, <<"&","v","=">>},
    {<<"y","o","u","t","u",".","b","e","/">>},
    {<<"y","o","u","t","u","b","e",".","c","o","m","/","s","h","o","r","t","s","/">>,
     <<"y","o","u","t","u","b","e",".","c","o","m","/","l","i","v","e","/">>,
     <<"y","o","u","t","u","b","e",".","c","o","m","/","e","m","b","e","d","/">>}>>

\* for pattern in URL_VIDEO_ID_PATTERNS: the capture of the first pattern, from
\* pattern k on, that is found in text; <<>> when none is
RECURSIVE FirstUrlMatch(_, _)
FirstUrlMatch(text, k) ==
  IF k > Len(URL_VIDEO_ID_PATTERNS) THEN <<>>
  ELSE IF SearchIdAfter(text, URL_VIDEO_ID_PATTERNS[k]) # <<>>
       THEN SearchIdAfter(text, URL_VIDEO_ID_PATTERNS[k])
  ELSE FirstUrlMatch(text, k + 1)

\* str.rfind(c) + 1: the last position of c in s, 0 when there is none
LastIndexOf(s, c) ==
  IF \E i \in DOMAIN s : s[i] = c
  THEN CHOOSE i \in DOMAIN s : s[i] = c /\ \A j \in DOMAIN s : s[j] = c => j <= i
  ELSE 0

\* text.split("?", 1)[0]
BeforeQuery(s) ==
  IF LastIndexOf(s, "?") = 0 THEN s
  ELSE SubSeq(s, 1, Min({i \in DOMAIN s : s[i] = "?"}) - 1)

\* Path(s).name: the last component, where empty and "." components do not count
RECURSIVE PathName(_)
PathName(s) ==
  IF s = <<>> \/ s = <<".">> THEN <<>>
  ELSE IF s[Len(s)] = "/" THEN PathName(SubSeq(s, 1, Len(s) - 1))
  ELSE IF Len(s) >= 2 /\ s[Len(s)] = "." /\ s[Len(s) - 1] = "/"
       THEN PathName(SubSeq(s, 1, Len(s) - 2))
  ELSE SubSeq(s, LastIndexOf(s, "/") + 1, Len(s))

\* Path(name).stem: the name up to its last dot, unless that dot starts or ends it
PathStem(name) ==
  IF LastIndexOf(name, ".") > 1 /\ LastIndexOf(name, ".") < Len(name)
  THEN SubSeq(name, 1, LastIndexOf(name, ".") - 1)
  ELSE name

\* stem[-11:] when YOUTUBE_VIDEO_ID_RE.fullmatch accepts it, else <<>>
StemTail(stem) ==
  IF /\ Len(stem) >= YoutubeIdLen
     /\ \A i \in (Len(stem) - YoutubeIdLen + 1)..Len(stem) : IsIdChar(stem[i])
  THEN SubSeq(stem, Len(stem) - YoutubeIdLen + 1, Len(stem))
  ELSE <<>>

\* FILENAME_VIDEO_ID_RE matches at i: "_", then 6 to 20 id characters, then ".",
\* then one or more characters other than "." up to the end
FilenameMatchAt(s, i) ==
  /\ s[i] = "_"
  /\ IdRun(s, i + 1, IdMaxLen + 1) >= IdMinLen
  /\ IdRun(s, i + 1, IdMaxLen + 1) <= IdMaxLen
  /\ i + 1 + IdRun(s, i + 1, IdMaxLen + 1) < Len(s)
  /\ s[i + 1 + IdRun(s, i + 1, IdMaxLen + 1)] = "."
  /\ \A j \in (i + 2 + IdRun(s, i + 1, IdMaxLen + 1))..Len(s) : s[j] # "."
\* FILENAME_VIDEO_ID_RE.search(file_part).group(1), <<>> when there is no match
FilenameMatch(s) ==
  IF \E i \in DOMAIN s : FilenameMatchAt(s, i)
  THEN IdAfter(s, Min({i \in DOMAIN s : FilenameMatchAt(s, i)}) + 1)
  ELSE <<>>

\* re.split(r"[_\-. ]+", stem): the characters that separate the parts
IsPartSep(c) == c \in {"_", "-", ".", " "}
PartStarts(s) == {i \in DOMAIN s : ~IsPartSep(s[i]) /\ (i = 1 \/ IsPartSep(s[i - 1]))}
RECURSIVE PartEnd(_, _)
PartEnd(s, i) == IF i < Len(s) /\ ~IsPartSep(s[i + 1]) THEN PartEnd(s, i + 1) ELSE i
PartFrom(s, i) == SubSeq(s, i, PartEnd(s, i))
\* for part in reversed(stem_parts): the last part VIDEO_ID_RE.fullmatch accepts
IdPartStarts(s) == {i \in PartStarts(s) : FullMatchId(PartFrom(s, i))}
LastIdPart(s) ==
  IF IdPartStarts(s) = {} THEN <<>>
  ELSE PartFrom(s, CHOOSE i \in IdPartStarts(s) : \A j \in IdPartStarts(s) : j <= i)

FromFileNameNoFallback(text, file_part, stem) ==
  IF StemTail(stem) # <<>> THEN StemTail(stem)
  ELSE IF FilenameMatch(file_part) # <<>> THEN FilenameMatch(file_part)
  ELSE LastIdPart(stem)
\* extract_video_id after the URL patterns found nothing: the tail of the stem,
\* the file name pattern, the parts of the stem, the whole text
FromFileName(text, file_part, stem) ==
  IF StemTail(stem) # <<>> THEN StemTail(stem)
  ELSE IF FilenameMatch(file_part) # <<>> THEN FilenameMatch(file_part)
  ELSE IF LastIdPart(stem) # <<>> THEN LastIdPart(stem)
  ELSE IF FullMatchId(text) THEN text
  ELSE <<>>
FromFilePart(text, file_part) == FromFileName(text, file_part, PathStem(file_part))

ExtractIdFileFirst(text) ==
  IF text = <<>> THEN <<>>
  ELSE IF FromFilePart(text, PathName(BeforeQuery(text))) # <<>>
       THEN FromFilePart(text, PathName(BeforeQuery(text)))
  ELSE FirstUrlMatch(text, 1)
\* text is the stripped value
ExtractId(text) ==
  IF text = <<>> THEN <<>>
  ELSE IF FirstUrlMatch(text, 1) # <<>> THEN FirstUrlMatch(text, 1)
  ELSE FromFilePart(text, PathName(BeforeQuery(text)))
extract_video_id(value) == ExtractId(Strip(value))

(* ------------------------------ feed items ----------------------------- *)
\* FeedItem.episode_number is None
NoEpisode == -1

\* the digits s[i..j] read as a decimal number: int(match.group(1))
RECURSIVE ParseInt(_, _, _)
ParseInt(s, i, j) ==
  IF j < i THEN 0 ELSE 10 * ParseInt(s, i, j - 1) + DigitVal(s[j])

RECURSIVE SkipSpaces(_, _)
SkipSpaces(s, i) == IF i <= Len(s) /\ IsSpace(s[i]) THEN SkipSpaces(s, i + 1) ELSE i

RECURSIVE DigitRun(_, _)
DigitRun(s, i) == IF i <= Len(s) /\ IsDigit(s[i]) THEN 1 + DigitRun(s, i + 1) ELSE 0

\* \d{1,5}: the most digits an episode number may have
EpisodeMaxDigits == 5

\* where the digits start when (?:episode|edition)\s*#?\s* matches at i
SkipHash(s, a) == IF a <= Len(s) /\ s[a] = "#" THEN a + 1 ELSE a
EpisodeDigitsAt(s, i) == SkipSpaces(s, SkipHash(s, SkipSpaces(s, i + 7)))

\* (?:episode|edition)\s*#?\s*(\d{1,5})\b matches at i; low is s in lower case
\* (\d{1,5})\b matches at d, where n digits stand
EpisodeDigitsMatch(s, d, n) ==
  /\ n >= 1
  /\ n <= EpisodeMaxDigits
  /\ (d + n <= Len(s) => ~IsWordChar(s[d + n]))
EpisodeDigitsMatchAt(s, d) == EpisodeDigitsMatch(s, d, DigitRun(s, d))
EpisodeMatchAt(s, low, i) ==
  /\ \/ StartsAt(low, i, <<"e","p","i","s","o","d","e">>)
     \/ StartsAt(low, i, <<"e","d","i","t","i","o","n">>)
  /\ EpisodeDigitsMatchAt(s, EpisodeDigitsAt(s, i))

\* worker._extract_episode_number
EpisodeAt(text, d) == ParseInt(text, d, d + DigitRun(text, d) - 1)
FirstEpisode(text, hits) ==
  IF text = <<>> \/ hits = {} THEN NoEpisode
  ELSE EpisodeAt(text, EpisodeDigitsAt(text, Min(hits)))
EpisodeHits(text, low) == {i \in 1..Len(text) : EpisodeMatchAt(text, low, i)}
EpisodeInText(text) ==
  FirstEpisode(text, EpisodeHits(text, [k \in DOMAIN text |-> Lower(text[k])]))
_extract_episode_number(value) == EpisodeInText(Strip(value))

\* worker.FeedItem; xml stands for the rendered entry: which side rendered it, and
\* from what
FeedItem(guid, dedupe_key, pub_date, episode_number, xml, description_len) ==
  [guid |-> guid, dedupe_key |-> dedupe_key, pub_date |-> pub_date,
   episode_number |-> episode_number, xml |-> xml, description_len |-> description_len]

\* one <item> of a third-party feed as _load_podsync_feeds reads it: the texts of
\* guid, link and title, the parsed pubDate (NoDate: missing or unparsable) and the
\* length of the description
RawItem(guid, link, title, pub_date, description_len) ==
  [guid |-> guid, link |-> link, title |-> title, pub_date |-> pub_date,
   description_len |-> description_len]

\* _load_podsync_feeds, the body of the loop over a channel's <item> elements
\* dedupe_key = _extract_video_id(guid) or _extract_video_id(link) or guid
DedupeKey(by_guid, by_link, guid) ==
  IF by_guid # <<>> THEN by_guid ELSE IF by_link # <<>> THEN by_link ELSE guid
\* guid = guid.strip() or link.strip()
GuidOrLink(guid, link) == IF guid # <<>> THEN guid ELSE link
\* ET.tostring(item): the element as the third-party tool wrote it
PodsyncXml(item) ==
  <<"podsync", item.guid, item.link, item.title, item.pub_date, item.description_len>>
\* the items one <item> element yields: none without a guid, else one
PodsyncItem(item, guid, clock) ==
  IF guid = <<>> THEN <<>>
  ELSE <<FeedItem(guid,
                  DedupeKey(_extract_video_id(guid), _extract_video_id(item.link), guid),
                  IF item.pub_date # NoDate THEN item.pub_date ELSE clock,
                  _extract_episode_number(item.title),
                  PodsyncXml(item),
                  item.description_len)>>
RECURSIVE PodsyncItems(_, _)
PodsyncItems(raw, clock) ==
  IF raw = <<>> THEN <<>>
  ELSE PodsyncItem(Head(raw), GuidOrLink(Strip(Head(raw).guid), Strip(Head(raw).link)), clock)
         \o PodsyncItems(Tail(raw), clock)

\* models.Video, the columns the core reads
VideoRow(channel_id, video_id, title, description_len, published_at) ==
  [channel_id |-> channel_id, video_id |-> video_id, title |-> title,
   description_len |-> description_len, published_at |-> published_at]

\* len(video.webpage_url) for the URL ytdlp.index_channel builds from the id:
\* len("https://www.youtube.com/watch?v=") + len(video_id)
WebpageUrlLen(video_id) == 32 + Len(video_id)

\* a total order on the rows of a result set without ORDER BY: by video id, then
\* by channel id
RowBefore(a, b) ==
  \/ StrLess(a.video_id, b.video_id)
  \/ a.video_id = b.video_id /\ a.channel_id < b.channel_id

RECURSIVE SetToSeq(_)
SetToSeq(S) ==
  IF S = {} THEN <<>>
  ELSE LET x == CHOOSE y \in S : \A z \in S \ {y} : RowBefore(y, z)
       IN <<x>> \o SetToSeq(S \ {x})

\* _load_manual_rows, the query: Download joined to Video on video_id, where the
\* Download is done and has a filename
ManualRowSet(dl, vs) ==
  {v \in vs : dl[v.video_id].status = "done" /\ dl[v.video_id].filename # NoFilename}

\* the answer of ytdlp.get_video_metadata that raises
GatewayFails == [failed |-> TRUE]

\* _load_manual_rows, the hydration loop: the videos table after it. meta[id] is
\* what get_video_metadata answers for the video
HydrateRow(v, m) ==
  IF v.published_at # NoDate \/ m = GatewayFails THEN v
  ELSE [v EXCEPT !.published_at = IF m.published_at # NoDate THEN m.published_at ELSE @,
                 !.description_len = IF m.description_len > 0 /\ @ = 0
                                     THEN m.description_len ELSE @]

\* the video ids _load_manual_rows asks the Gateway about
HydrationIds(dl, vs) == {v.video_id : v \in {r \in ManualRowSet(dl, vs) : r.published_at = NoDate}}

HydrateVideos(dl, vs, meta) ==
  {IF v.video_id \in DOMAIN meta /\ v \in ManualRowSet(dl, vs)
   THEN HydrateRow(v, meta[v.video_id]) ELSE v : v \in vs}

\* the key _load_manual_rows sorts by, and _manual_feed_items' pub_dt:
\* video.published_at or download.updated_at
ManualPubDate(dl, v) ==
  IF v.published_at # NoDate THEN v.published_at ELSE dl[v.video_id].updated_at

\* a sort key: a tuple of numbers followed by a string
SortKey(nums, str) == [nums |-> nums, str |-> str]

RECURSIVE NumsLess(_, _)
NumsLess(a, b) ==
  IF a = <<>> \/ b = <<>> THEN FALSE
  ELSE IF a[1] # b[1] THEN a[1] < b[1]
  ELSE NumsLess(Tail(a), Tail(b))

\* tuple.__lt__ on two sort keys
KeyLess(a, b) == NumsLess(a.nums, b.nums) \/ (a.nums = b.nums /\ StrLess(a.str, b.str))

\* list.sort(key=..., reverse=True) and sorted(..., reverse=True) on a list of
\* [key, val]: descending and stable, so x goes behind every element whose key is
\* not less than its own
RECURSIVE InsertDesc(_, _)
InsertDesc(out, x) ==
  IF out = <<>> THEN <<x>>
  ELSE IF KeyLess(Head(out).key, x.key) THEN <<x>> \o out
  ELSE <<Head(out)>> \o InsertDesc(Tail(out), x)

RECURSIVE SortDescInto(_, _)
SortDescInto(in, out) ==
  IF in = <<>> THEN out ELSE SortDescInto(Tail(in), InsertDesc(out, Head(in)))

SortedReverse(keyed) ==
  LET out == SortDescInto(keyed, <<>>) IN [i \in DOMAIN out |-> out[i].val]

\* _load_manual_rows: the rows, sorted
_load_manual_rows(dl, vs) ==
  LET rows == SetToSeq(ManualRowSet(dl, vs))
  IN SortedReverse([i \in DOMAIN rows |->
       [key |-> SortKey(<<ManualPubDate(dl, rows[i])>>, <<>>), val |-> rows[i]]])

\* _manual_feed_items: len(video.description or video.webpage_url or "")
ManualDescriptionLen(v) ==
  IF v.description_len > 0 THEN v.description_len ELSE WebpageUrlLen(v.video_id)
\* _manual_feed_items: the <item> rendered for a row
ManualXml(dl, v) ==
  <<"manual", v.video_id, v.title, ManualPubDate(dl, v), ManualDescriptionLen(v),
    dl[v.video_id].filename>>
\* _manual_feed_items: one FeedItem per row
_manual_feed_items(dl, rows) ==
  [i \in DOMAIN rows |->
     FeedItem(rows[i].video_id, rows[i].video_id, ManualPubDate(dl, rows[i]),
              _extract_episode_number(rows[i].title),
              ManualXml(dl, rows[i]),
              ManualDescriptionLen(rows[i]))]

(* ---------------------------- the merge engine -------------------------- *)
\* worker._normalize_url
RECURSIVE RStripSlash(_)
RStripSlash(s) ==
  IF s # <<>> /\ s[Len(s)] = "/" THEN RStripSlash(SubSeq(s, 1, Len(s) - 1)) ELSE s
_normalize_url(url) == RStripSlash(Strip(url))

\* models.Channel, the columns the core reads
ChannelRow(url, name, last_indexed_at) ==
  [url |-> url, name |-> name, last_indexed_at |-> last_indexed_at]

\* worker.PodsyncFeed, with the items as read from the file
PodsyncFeed(feed_id, source_url, items) ==
  [feed_id |-> feed_id, source_url |-> source_url, items |-> items]

NoFeed == [feed_id |-> "", source_url |-> <<>>, items |-> <<>>]

\* regenerate_merged_feeds: by_source_url.get(...), then by_feed_id.get(channel.name).
\* Both dicts are built in file order, so the last feed with a key is the one kept
MatchFeed(channel, feeds) ==
  LET by_url == {i \in DOMAIN feeds : /\ feeds[i].source_url # <<>>
                                      /\ _normalize_url(feeds[i].source_url)
                                           = _normalize_url(channel.url)}
      by_id == {i \in DOMAIN feeds : feeds[i].feed_id = channel.name}
      Last(S) == CHOOSE i \in S : \A j \in S : j <= i
  IN IF by_url # {} THEN feeds[Last(by_url)]
     ELSE IF channel.name # "" /\ by_id # {} THEN feeds[Last(by_id)]
     ELSE NoFeed

\* a comparison without the publish date: on equal lengths the first item stays
ReplacesLongerOnly(item, existing) == item.description_len > existing.description_len

\* a loop that never replaces the item it has kept for a key
ReplacesNever(item, existing) == FALSE

\* regenerate_merged_feeds: whether item replaces the item already kept for its key
Replaces(item, existing) ==
  \/ item.description_len > existing.description_len
  \/ /\ item.description_len = existing.description_len
     /\ item.pub_date > existing.pub_date

\* regenerate_merged_feeds, the loop that fills by_guid: acc is by_guid.values(),
\* in the order the keys were first inserted
RECURSIVE MergeByKey(_, _)
MergeByKey(items, acc) ==
  IF items = <<>> THEN acc
  ELSE LET item == Head(items)
           at == {k \in DOMAIN acc : acc[k].dedupe_key = item.dedupe_key}
       IN IF at = {} THEN MergeByKey(Tail(items), Append(acc, item))
          ELSE LET k == CHOOSE x \in at : TRUE
               IN MergeByKey(Tail(items),
                             IF Replaces(item, acc[k]) THEN [acc EXCEPT ![k] = item]
                             ELSE acc)

\* a sort key without the guid
_sort_key_no_guid(item) ==
  SortKey(<<item.pub_date,
            IF item.episode_number # NoEpisode THEN 1 ELSE 0,
            IF item.episode_number = NoEpisode \/ item.episode_number = 0
            THEN -1 ELSE item.episode_number>>, <<>>)

\* regenerate_merged_feeds._sort_key
_sort_key(item) ==
  LET has_episode == IF item.episode_number # NoEpisode THEN 1 ELSE 0
      episode_num == IF item.episode_number = NoEpisode \/ item.episode_number = 0
                     THEN -1 ELSE item.episode_number
  IN SortKey(<<item.pub_date, has_episode, episode_num>>, item.guid)

\* regenerate_merged_feeds: merged_items for one channel
MergedItems(podsync_items, manual_items) ==
  LET kept == MergeByKey(podsync_items \o manual_items, <<>>)
  IN SortedReverse([i \in DOMAIN kept |-> [key |-> _sort_key(kept[i]), val |-> kept[i]]])

\* str(n) for n >= 0
RECURSIVE Str(_)
Str(n) == IF n < 10 THEN <<Digits[n + 1]>> ELSE Str(n \div 10) \o <<Digits[(n % 10) + 1]>>

\* int(old_file.stem) does not raise ValueError
IsIntStem(stem) == stem # <<>> /\ \A i \in DOMAIN stem : IsDigit(stem[i])
StemInt(stem) == ParseInt(stem, 1, Len(stem))

\* one file of settings.merged_feed_dir
MergedFile(stem, items) == [stem |-> stem, items |-> items]

\* regenerate_merged_feeds, the loop over the channels: the items merged for each
\* channel id, <<>> for a channel the loop skips
ChannelMergedItems(chs, feeds, dl, vs, clock) ==
  LET rows == _load_manual_rows(dl, vs)
  IN [c \in DOMAIN chs |->
        MergedItems(PodsyncItems(MatchFeed(chs[c], feeds).items, clock),
                    _manual_feed_items(dl, SelectSeq(rows, LAMBDA v : v.channel_id = c)))]

\* regenerate_merged_feeds: the merged directory after the pass
\* a cleanup that keeps the file of every channel in the table, with items or not
WriteAndCleanupByChannel(files, items, generated) ==
  {MergedFile(Str(c), items[c]) : c \in generated}
    \cup {f \in files : /\ f.stem \notin {Str(c) : c \in generated}
                         /\ (IsIntStem(f.stem) => StemInt(f.stem) \in DOMAIN items)}

\* a write that opens the file of a channel for appending: the items pile up
WriteAndCleanupAppend(files, items, generated) ==
  {MergedFile(Str(c),
              (IF \E f \in files : f.stem = Str(c)
               THEN (CHOOSE f \in files : f.stem = Str(c)).items ELSE <<>>) \o items[c]) :
     c \in generated}
    \cup {f \in files : /\ f.stem \notin {Str(c) : c \in generated}
                         /\ (IsIntStem(f.stem) => StemInt(f.stem) \in generated)}

\* the files written for the channels in generated_channel_ids, and the old files
\* the cleanup loop leaves
WriteAndCleanup(files, items, generated) ==
  {MergedFile(Str(c), items[c]) : c \in generated}
    \cup {f \in files : /\ f.stem \notin {Str(c) : c \in generated}
                         /\ (IsIntStem(f.stem) => StemInt(f.stem) \in generated)}
MergedDirAfter(files, items) ==
  WriteAndCleanup(files, items, {c \in DOMAIN items : items[c] # <<>>})
regenerate_merged_feeds(files, chs, feeds, dl, vs, clock) ==
  MergedDirAfter(files, ChannelMergedItems(chs, feeds, dl, vs, clock))

\* regenerate_manual_feed: the items of the manual feed file
regenerate_manual_feed(dl, vs) == _manual_feed_items(dl, _load_manual_rows(dl, vs))

(* --------------------------- download file names ------------------------ *)
\* slugify_title: the characters re.sub(r"[^A-Za-z0-9._ -]+", "", value) keeps
IsSlugChar(c) == IsWordChar(c) \/ c \in {".", " ", "-"}

\* re.sub(r"\s+", "_", cleaned)
RECURSIVE SpacesToUnderscore(_)
SpacesToUnderscore(s) ==
  IF s = <<>> THEN <<>>
  ELSE IF IsSpace(s[1]) THEN <<"_">> \o SpacesToUnderscore(LStrip(s))
  ELSE <<s[1]>> \o SpacesToUnderscore(Tail(s))

\* cleaned[:150]
SlugMaxLen == 150
Untitled == <<"u","n","t","i","t","l","e","d">>

\* worker.slugify_title
slugify_title(value) ==
  LET cleaned == SpacesToUnderscore(Strip(SelectSeq(value, IsSlugChar)))
      cut == SubSeq(cleaned, 1, IF Len(cleaned) < SlugMaxLen THEN Len(cleaned) ELSE SlugMaxLen)
  IN IF cut = <<>> THEN Untitled ELSE cut

\* a file name of the media directory: build_filename's parts, and the suffix
\* resolve_dest_path appended (1: none; "ts": the timestamp)
MediaName(date_part, slug, video_id, n) ==
  [date_part |-> date_part, slug |-> slug, video_id |-> video_id, n |-> n]

\* worker.build_filename
build_filename(published_at, title, video_id, clock) ==
  MediaName(IF published_at # NoDate THEN published_at ELSE clock,
            slugify_title(title), video_id, 1)

\* resolve_dest_path: range(2, 1000)
FirstSuffix == 2
LastSuffix == 999
\* the suffix of the name built from the timestamp
TimestampSuffix == 0

\* a path that is taken as built, whatever exists there
resolve_dest_path_unchecked(base, files) == base
\* worker.resolve_dest_path
resolve_dest_path(base, files) ==
  LET free == {i \in FirstSuffix..LastSuffix : [base EXCEPT !.n = i] \notin files}
  IN IF base \notin files THEN base
     ELSE IF free # {} THEN [base EXCEPT !.n = Min(free)]
     ELSE [base EXCEPT !.n = TimestampSuffix]

(* ------------------------- the Channel Importer ------------------------- *)
\* one [feeds.<feed_id>] table of the Podsync config
ConfigFeed(feed_id, url) == [feed_id |-> feed_id, url |-> url]

\* sync_channels_from_podsync_config, the loop: chs are the rows as the session sees
\* them, adds the rows it has added and not yet flushed (autoflush is off, so the
\* select does not see them)
RECURSIVE SyncFold(_, _, _)
SyncFold(cfg, chs, adds) ==
  IF cfg = <<>> THEN [chs |-> chs, adds |-> adds]
  ELSE LET url == _normalize_url(Head(cfg).url)
           hit == {i \in DOMAIN chs : chs[i].url = url}
       IN IF url = <<>> THEN SyncFold(Tail(cfg), chs, adds)
          ELSE IF hit = {}
            THEN SyncFold(Tail(cfg), chs,
                          Append(adds, ChannelRow(url, Head(cfg).feed_id, NoDate)))
          ELSE LET i == CHOOSE x \in hit : TRUE
               IN SyncFold(Tail(cfg),
                           IF chs[i].name = "" THEN [chs EXCEPT ![i].name = Head(cfg).feed_id]
                           ELSE chs,
                           adds)

\* sync_channels_from_podsync_config: the table after the commit, the count returned,
\* and whether the commit raised (Channel.url is unique)
sync_channels_from_podsync_config(chs, cfg) ==
  LET r == SyncFold(cfg, chs, <<>>)
      clash == \E i, j \in DOMAIN r.adds : i # j /\ r.adds[i].url = r.adds[j].url
  IN IF clash THEN [channels |-> chs, added |-> 0, raised |-> TRUE]
     ELSE [channels |-> r.chs \o r.adds, added |-> Len(r.adds), raised |-> FALSE]

(* --------------------------- the environment ---------------------------- *)
TitleTalk == <<"T","a","l","k">>
TitleEpisode12 == <<"E","p","i","s","o","d","e"," ","1","2">>

\* what ytdlp.get_video_metadata answers: nothing useful, or everything
MetaBlank == [title |-> <<>>, description_len |-> 0, published_at |-> NoDate]
MetaFull == [title |-> TitleEpisode12, description_len |-> 40, published_at |-> 1]
MetaChoices == {GatewayFails, MetaBlank, MetaFull}
\* the Gateway's answers for the video ids it is asked about
MetaAnswers(ids) == [ids -> MetaChoices]

\* what ytdlp.index_channel lists: flat playlist entries, without their metadata
ListingEntry(video_id, title, description_len, published_at) ==
  [video_id |-> video_id, title |-> title, description_len |-> description_len,
   published_at |-> published_at]
EntryChoices == {ListingEntry(v, TitleTalk, 0, NoDate) : v \in VideoIds}
\* entries in one listing
MaxListing == 1
RECURSIVE SeqsUpTo(_, _)
SeqsUpTo(S, n) ==
  IF n = 0 THEN {<<>>}
  ELSE LET shorter == SeqsUpTo(S, n - 1)
       IN shorter \cup {Append(q, x) : q \in shorter, x \in S}
Listings == SeqsUpTo(EntryChoices, MaxListing)

\* the Podsync config as the importer finds it: missing, or one feed
ConfigChoices == {<<>>, <<ConfigFeed("a", UrlASlash)>>}

\* where regenerate_all_feeds can raise: nowhere, writing the manual feed, or
\* writing a merged feed
RegenOutcomes == {"ok", "manual_fails", "merged_fails"}

(* ------------------------------ the handlers ---------------------------- *)
NoVideo == VideoRow(0, <<>>, <<>>, 0, NoDate)
NoPath == MediaName(NoDate, <<>>, <<>>, 1)

\* what the Gateway may answer to the lookups of one _load_manual_rows
FirstAnswers == MetaAnswers(HydrationIds(downloads, videos))
\* and to the lookups of the _load_manual_rows that follows one answered with meta
SecondAnswers(meta) ==
  MetaAnswers(HydrationIds(downloads, HydrateVideos(downloads, videos, meta)))

\* regenerate_all_feeds, run against channel table chs: regenerate_manual_feed and
\* then regenerate_merged_feeds each call _load_manual_rows, which hydrates (and
\* commits) before the file is written; meta and meta2 answer the two rounds
RegenerateAllFeeds(chs, meta, meta2, outcome) ==
  /\ videos' = IF outcome = "manual_fails" THEN HydrateVideos(downloads, videos, meta)
               ELSE HydrateVideos(downloads, HydrateVideos(downloads, videos, meta), meta2)
  /\ manual_feed' = IF outcome = "manual_fails" THEN manual_feed
                    ELSE regenerate_manual_feed(downloads,
                                                HydrateVideos(downloads, videos, meta))
  /\ merged_files' = IF outcome # "ok" THEN merged_files
                     ELSE regenerate_merged_feeds(merged_files, chs, podsync_feeds,
                                                  downloads, videos', now)

\* regenerate_merged_feeds alone, as the sync job and the periodic sync run it
RegenerateMergedFeeds(chs, meta, outcome) ==
  /\ videos' = HydrateVideos(downloads, videos, meta)
  /\ manual_feed' = manual_feed
  /\ merged_files' = IF outcome # "ok" THEN merged_files
                     ELSE regenerate_merged_feeds(merged_files, chs, podsync_feeds,
                                                  downloads, videos', now)

\* _handle_index, the upsert loop: vs are the rows as the session sees them, adds
\* the rows added and not yet flushed
RECURSIVE IndexFold(_, _, _, _)
IndexFold(entries, c, vs, adds) ==
  IF entries = <<>> THEN [vs |-> vs, adds |-> adds]
  ELSE LET e == Head(entries)
           row == VideoRow(c, e.video_id, e.title, e.description_len, e.published_at)
           existing == {v \in vs : v.channel_id = c /\ v.video_id = e.video_id}
       IN IF existing # {}
            THEN IndexFold(Tail(entries), c, (vs \ existing) \cup {row}, adds)
          ELSE IndexFold(Tail(entries), c, vs, Append(adds, row))

\* ensure_video_metadata
ensure_video_metadata(video, metadata) ==
  [video EXCEPT
     !.title = IF metadata.title # <<>> THEN metadata.title ELSE @,
     !.description_len = IF metadata.description_len > 0 THEN metadata.description_len ELSE @,
     !.published_at = IF metadata.published_at # NoDate THEN metadata.published_at ELSE @]

(* ------------------------------ the worker ------------------------------ *)
\* a loop whose condition never reads the flag: while True
LoopTopIgnoresStop ==
  /\ w_pc = "top"
  /\ w_pc' = "claim"
  /\ UNCHANGED <<db_vars, file_vars, now, stop_event, w_job, w_exc, w_video, w_path,
                 next_feed_sync_at, podsync_feeds, http>>
\* worker_loop: while not stop_event.is_set()
LoopTop ==
  /\ w_pc = "top"
  /\ w_pc' = IF stop_event THEN "exited" ELSE "claim"
  /\ UNCHANGED <<db_vars, file_vars, now, stop_event, w_job, w_exc, w_video, w_path,
                 next_feed_sync_at, podsync_feeds, http>>

\* a select that also returns failed Jobs: they would be retried
SelectJobRetry(js) ==
  LET open == {i \in DOMAIN js : js[i].status \in {"pending", "failed"}}
  IN IF open = {} THEN NoJob ELSE Min(open)

\* a select ordered by id descending: the newest pending Job first
SelectJobNewest(js) ==
  LET pending == {i \in DOMAIN js : js[i].status = "pending"}
  IN IF pending = {} THEN NoJob ELSE CHOOSE i \in pending : \A k \in pending : k <= i

\* process_next_job: the id of the Job the select returns, NoJob when there is none
SelectJob(js) ==
  LET pending == {i \in DOMAIN js : js[i].status = "pending"}
  IN IF pending = {} THEN NoJob ELSE Min(pending)

\* process_next_job, the first session: select the Job and mark it running
ClaimJob ==
  /\ w_pc = "claim"
  /\ LET id == SelectJob(jobs)
     IN IF id = NoJob
          THEN /\ w_pc' = "sync"
               /\ UNCHANGED <<jobs, w_job>>
        ELSE /\ jobs' = [jobs EXCEPT ![id].status = "running"]
             /\ w_job' = id
             /\ w_pc' = "dispatch"
  /\ UNCHANGED <<downloads, videos, channels, file_vars, now, stop_event, w_exc,
                 w_video, w_path, next_feed_sync_at, podsync_feeds, http>>

\* the handler returned: on to the session that marks the Job done
Returned == w_pc' = "finish_done" /\ w_exc' = NoExc
\* the handler raised: on to the except clause
Raised(exc) == w_pc' = "finish_failed" /\ w_exc' = exc

\* _handle_index. listing: what ytdlp.index_channel returns; failed: it raises
HandleIndex(listing, failed) ==
  /\ w_pc = "dispatch"
  /\ jobs[w_job].job_type = "index_channel"
  /\ LET c == jobs[w_job].payload.channel_id
         r == IndexFold(listing, c, videos, <<>>)
         clash == \E i, j \in DOMAIN r.adds :
                    i # j /\ r.adds[i].video_id = r.adds[j].video_id
     IN IF c \notin DOMAIN channels
          THEN Raised("channel_not_found") /\ UNCHANGED <<videos, channels>>
        ELSE IF failed
          THEN Raised("command_failed") /\ UNCHANGED <<videos, channels>>
        ELSE IF clash
          THEN Raised("integrity") /\ UNCHANGED <<videos, channels>>
        ELSE /\ videos' = r.vs \cup Range(r.adds)
             /\ channels' = [channels EXCEPT ![c].last_indexed_at = now]
             /\ Returned
  /\ UNCHANGED <<jobs, downloads, file_vars, now, stop_event, w_job, w_video, w_path,
                 next_feed_sync_at, podsync_feeds, http>>

\* _handle_download, the first session: look the Video up, refresh its metadata,
\* upsert the Download to running. metadata: what get_video_metadata answers
HandleDownload(metadata) ==
  /\ w_pc = "dispatch"
  /\ jobs[w_job].job_type = "download_video"
  /\ LET video_id == jobs[w_job].payload.video_id
         found == {v \in videos : v.video_id = video_id}
         video == CHOOSE v \in found : TRUE
         fresh == ensure_video_metadata(video, metadata)
     IN IF found = {}
          THEN Raised("video_not_found") /\ UNCHANGED <<videos, downloads, w_video>>
        ELSE IF Cardinality(found) > 1
          THEN Raised("multiple_rows") /\ UNCHANGED <<videos, downloads, w_video>>
        ELSE IF metadata = GatewayFails
          THEN Raised("command_failed") /\ UNCHANGED <<videos, downloads, w_video>>
        ELSE /\ videos' = (videos \ {video}) \cup {fresh}
             /\ downloads' = [downloads EXCEPT ![video_id] =
                  IF HasRow(downloads, video_id)
                  THEN [@ EXCEPT !.status = "running", !.error = "", !.updated_at = now]
                  ELSE DownloadRow("running", "", NoFilename, now)]
             /\ w_video' = fresh
             /\ w_pc' = "dl_fetch"
             /\ w_exc' = NoExc
  /\ UNCHANGED <<jobs, channels, file_vars, now, stop_event, w_job, w_path,
                 next_feed_sync_at, podsync_feeds, http>>

\* _handle_download: ytdlp.download_video, then the staged file is moved to the
\* path resolve_dest_path picked. failed: download_video raises
DownloadFetch(failed) ==
  /\ w_pc = "dl_fetch"
  /\ IF failed
       THEN Raised("command_failed") /\ UNCHANGED <<media_files, w_path>>
     ELSE LET filename == build_filename(w_video.published_at, w_video.title,
                                         w_video.video_id, now)
              media_path == resolve_dest_path(filename, media_files)
          IN /\ media_files' = media_files \cup {media_path}
             /\ w_path' = media_path
             /\ w_pc' = "dl_mark"
             /\ w_exc' = NoExc
  /\ UNCHANGED <<db_vars, manual_feed, merged_files, now, stop_event, w_job, w_video,
                 next_feed_sync_at, podsync_feeds, http>>

\* a second session that marks the Download done and stores no path
DownloadMarkDoneNoPath ==
  /\ w_pc = "dl_mark"
  /\ downloads' = [downloads EXCEPT ![w_video.video_id] =
       [@ EXCEPT !.status = "done", !.updated_at = now]]
  /\ w_pc' = "dl_regen"
  /\ UNCHANGED <<jobs, videos, channels, file_vars, now, stop_event, w_job, w_exc,
                 w_video, w_path, next_feed_sync_at, podsync_feeds, http>>
\* _handle_download, the second session: mark the Download done
DownloadMarkDone ==
  /\ w_pc = "dl_mark"
  /\ downloads' = [downloads EXCEPT ![w_video.video_id] =
       [@ EXCEPT !.status = "done", !.filename = w_path, !.updated_at = now]]
  /\ w_pc' = "dl_regen"
  /\ UNCHANGED <<jobs, videos, channels, file_vars, now, stop_event, w_job, w_exc,
                 w_video, w_path, next_feed_sync_at, podsync_feeds, http>>

\* _handle_download: regenerate_all_feeds()
DownloadRegenerate(meta, meta2, outcome) ==
  /\ w_pc = "dl_regen"
  /\ RegenerateAllFeeds(channels, meta, meta2, outcome)
  /\ IF outcome = "ok" THEN Returned ELSE Raised("os_error")
  /\ UNCHANGED <<jobs, downloads, channels, media_files, now, stop_event, w_job,
                 w_video, w_path, next_feed_sync_at, podsync_feeds, http>>

\* process_next_job, job_type regenerate_manual_feed: regenerate_all_feeds()
HandleRegenerate(meta, meta2, outcome) ==
  /\ w_pc = "dispatch"
  /\ jobs[w_job].job_type = "regenerate_manual_feed"
  /\ RegenerateAllFeeds(channels, meta, meta2, outcome)
  /\ IF outcome = "ok" THEN Returned ELSE Raised("os_error")
  /\ UNCHANGED <<jobs, downloads, channels, media_files, now, stop_event, w_job,
                 w_video, w_path, next_feed_sync_at, podsync_feeds, http>>

\* sync_channels_from_podsync_config() then regenerate_merged_feeds(), as the sync
\* job and the periodic sync run them
SyncAndMerge(cfg, meta, outcome) ==
  LET r == sync_channels_from_podsync_config(channels, cfg)
  IN /\ Len(r.channels) <= MaxChannels
     /\ outcome # "manual_fails"
     /\ channels' = r.channels
     /\ IF r.raised THEN UNCHANGED <<videos, manual_feed, merged_files>>
        ELSE RegenerateMergedFeeds(r.channels, meta, outcome)

\* what SyncAndMerge raises, NoExc when it returns
SyncAndMergeRaises(cfg, outcome) ==
  IF sync_channels_from_podsync_config(channels, cfg).raised THEN "integrity"
  ELSE IF outcome # "ok" THEN "os_error" ELSE NoExc

\* a sync job that also renders the manual feed from the rows it loaded
HandleSyncWritesManualFeed(cfg, meta, outcome) ==
  /\ w_pc = "dispatch"
  /\ jobs[w_job].job_type = "sync_podsync_feeds"
  /\ Len(sync_channels_from_podsync_config(channels, cfg).channels) <= MaxChannels
  /\ outcome # "manual_fails"
  /\ channels' = sync_channels_from_podsync_config(channels, cfg).channels
  /\ IF sync_channels_from_podsync_config(channels, cfg).raised
       THEN UNCHANGED <<videos, manual_feed, merged_files>>
     ELSE /\ videos' = HydrateVideos(downloads, videos, meta)
          /\ manual_feed' = regenerate_manual_feed(downloads, videos')
          /\ merged_files' =
               IF outcome # "ok" THEN merged_files
               ELSE regenerate_merged_feeds(merged_files, channels', podsync_feeds,
                                            downloads, videos', now)
  /\ IF SyncAndMergeRaises(cfg, outcome) = NoExc THEN Returned
     ELSE Raised(SyncAndMergeRaises(cfg, outcome))
  /\ UNCHANGED <<jobs, downloads, media_files, now, stop_event, w_job, w_video,
                 w_path, next_feed_sync_at, podsync_feeds, http>>
\* process_next_job, job_type sync_podsync_feeds
HandleSync(cfg, meta, outcome) ==
  /\ w_pc = "dispatch"
  /\ jobs[w_job].job_type = "sync_podsync_feeds"
  /\ SyncAndMerge(cfg, meta, outcome)
  /\ IF SyncAndMergeRaises(cfg, outcome) = NoExc THEN Returned
     ELSE Raised(SyncAndMergeRaises(cfg, outcome))
  /\ UNCHANGED <<jobs, downloads, media_files, now, stop_event, w_job, w_video,
                 w_path, next_feed_sync_at, podsync_feeds, http>>

\* a dispatch that passes over a Job of an unknown type as if it had been handled
HandleUnknownSkips ==
  /\ w_pc = "dispatch"
  /\ jobs[w_job].job_type \notin {"index_channel", "download_video",
                                  "regenerate_manual_feed", "sync_podsync_feeds"}
  /\ Returned
  /\ UNCHANGED <<db_vars, file_vars, now, stop_event, w_job, w_video, w_path,
                 next_feed_sync_at, podsync_feeds, http>>
\* process_next_job, the else branch: RuntimeError("unknown job type ...")
HandleUnknown ==
  /\ w_pc = "dispatch"
  /\ jobs[w_job].job_type \notin {"index_channel", "download_video",
                                  "regenerate_manual_feed", "sync_podsync_feeds"}
  /\ Raised("unknown_job_type")
  /\ UNCHANGED <<db_vars, file_vars, now, stop_event, w_job, w_video, w_path,
                 next_feed_sync_at, podsync_feeds, http>>

\* process_next_job, the session after the handler returned: mark the Job done
FinishDone ==
  /\ w_pc = "finish_done"
  /\ jobs' = [jobs EXCEPT ![w_job].status = "done", ![w_job].error = ""]
  /\ w_pc' = "sync"
  /\ UNCHANGED <<downloads, videos, channels, file_vars, now, stop_event, w_job,
                 w_exc, w_video, w_path, next_feed_sync_at, podsync_feeds, http>>

\* an except clause that leaves the Job as it is: the commit is missing
FinishFailedNoCommit ==
  /\ w_pc = "finish_failed"
  /\ w_pc' = IF jobs[w_job].job_type = "download_video" THEN "fail_download" ELSE "sync"
  /\ UNCHANGED <<db_vars, file_vars, now, stop_event, w_job, w_exc, w_video, w_path,
                 next_feed_sync_at, podsync_feeds, http>>

\* an except clause that marks the Job failed and stores no error text
FinishFailedNoError ==
  /\ w_pc = "finish_failed"
  /\ jobs' = [jobs EXCEPT ![w_job].status = "failed", ![w_job].error = ""]
  /\ w_pc' = IF jobs[w_job].job_type = "download_video" THEN "fail_download" ELSE "sync"
  /\ UNCHANGED <<downloads, videos, channels, file_vars, now, stop_event, w_job,
                 w_exc, w_video, w_path, next_feed_sync_at, podsync_feeds, http>>

\* process_next_job, the except clause, first session: mark the Job failed
FinishFailed ==
  /\ w_pc = "finish_failed"
  /\ jobs' = [jobs EXCEPT ![w_job].status = "failed", ![w_job].error = StrExc(w_exc)]
  /\ w_pc' = IF jobs[w_job].job_type = "download_video" THEN "fail_download" ELSE "sync"
  /\ UNCHANGED <<downloads, videos, channels, file_vars, now, stop_event, w_job,
                 w_exc, w_video, w_path, next_feed_sync_at, podsync_feeds, http>>

\* an except clause that stores the error on the Job only
FailDownloadJobOnly ==
  /\ w_pc = "fail_download"
  /\ w_pc' = "sync"
  /\ UNCHANGED <<db_vars, file_vars, now, stop_event, w_job, w_exc, w_video, w_path,
                 next_feed_sync_at, podsync_feeds, http>>

\* process_next_job, the except clause, second session: mark the Download failed
FailDownload ==
  /\ w_pc = "fail_download"
  /\ LET video_id == jobs[w_job].payload.video_id
     IN downloads' =
          IF HasRow(downloads, video_id)
          THEN [downloads EXCEPT ![video_id] =
                  [@ EXCEPT !.status = "failed", !.error = StrExc(w_exc),
                            !.updated_at = now]]
          ELSE downloads
  /\ w_pc' = "sync"
  /\ UNCHANGED <<jobs, videos, channels, file_vars, now, stop_event, w_job, w_exc,
                 w_video, w_path, next_feed_sync_at, podsync_feeds, http>>

\* worker_loop: the periodic sync is due
SyncDueAt(interval, clock, next_at) == interval > 0 /\ clock >= next_at
SyncDue == SyncDueAt(podsync_feed_sync_interval_seconds, now, next_feed_sync_at)

\* a loop that ends when the periodic sync raises
PeriodicSyncStopsOnFailure(cfg, meta, outcome) ==
  /\ w_pc = "sync"
  /\ SyncDue
  /\ SyncAndMerge(cfg, meta, outcome)
  /\ next_feed_sync_at' = now + podsync_feed_sync_interval_seconds
  /\ w_pc' = IF SyncAndMergeRaises(cfg, outcome) = NoExc THEN "top" ELSE "exited"
  /\ UNCHANGED <<jobs, downloads, media_files, now, stop_event, w_job, w_exc,
                 w_video, w_path, podsync_feeds, http>>

\* worker_loop: the periodic sync (what it raises is logged), then
\* stop_event.wait(poll_interval_seconds)
PeriodicSync(cfg, meta, outcome) ==
  /\ w_pc = "sync"
  /\ SyncDue
  /\ SyncAndMerge(cfg, meta, outcome)
  /\ next_feed_sync_at' = now + podsync_feed_sync_interval_seconds
  /\ w_pc' = "top"
  /\ UNCHANGED <<jobs, downloads, media_files, now, stop_event, w_job, w_exc,
                 w_video, w_path, podsync_feeds, http>>

\* worker_loop: no periodic sync is due; stop_event.wait(poll_interval_seconds)
SkipSync ==
  /\ w_pc = "sync"
  /\ ~SyncDue
  /\ w_pc' = "top"
  /\ UNCHANGED <<db_vars, file_vars, now, stop_event, w_job, w_exc, w_video, w_path,
                 next_feed_sync_at, podsync_feeds, http>>

(* ----------------------------- the HTTP layer --------------------------- *)
\* video ids in one enqueue request
MaxRequestIds == 2

\* a loop that skips only the rows that are running or done: a queued Download
\* gets a second Job
RECURSIVE EnqueueFoldRequeue(_, _, _, _, _, _)
EnqueueFoldRequeue(ids, pod, clock, dl, adds, njobs) ==
  IF ids = <<>> THEN [dl |-> dl, adds |-> adds, njobs |-> njobs]
  ELSE LET video_id == Head(ids)
           job == NewJob("download_video", Payload(0, video_id))
       IN IF video_id \in pod THEN EnqueueFoldRequeue(Tail(ids), pod, clock, dl, adds, njobs)
          ELSE IF HasRow(dl, video_id) /\ dl[video_id].status \in {"running", "done"}
            THEN EnqueueFoldRequeue(Tail(ids), pod, clock, dl, adds, njobs)
          ELSE IF ~HasRow(dl, video_id)
            THEN EnqueueFoldRequeue(Tail(ids), pod, clock, dl, Append(adds, video_id),
                                 Append(njobs, job))
          ELSE EnqueueFoldRequeue(Tail(ids), pod, clock,
                 [dl EXCEPT ![video_id] =
                    [@ EXCEPT !.status = "queued", !.error = "", !.updated_at = clock]],
                 adds, Append(njobs, job))

\* enqueue_downloads, the loop: dl are the rows as the session sees them, adds the
\* video ids of the rows added and not yet flushed, njobs the Jobs added
RECURSIVE EnqueueFold(_, _, _, _, _, _)
EnqueueFold(ids, pod, clock, dl, adds, njobs) ==
  IF ids = <<>> THEN [dl |-> dl, adds |-> adds, njobs |-> njobs]
  ELSE LET video_id == Head(ids)
           job == NewJob("download_video", Payload(0, video_id))
       IN IF video_id \in pod THEN EnqueueFold(Tail(ids), pod, clock, dl, adds, njobs)
          ELSE IF HasRow(dl, video_id) /\ dl[video_id].status \in {"queued", "running", "done"}
            THEN EnqueueFold(Tail(ids), pod, clock, dl, adds, njobs)
          ELSE IF ~HasRow(dl, video_id)
            THEN EnqueueFold(Tail(ids), pod, clock, dl, Append(adds, video_id),
                             Append(njobs, job))
          ELSE EnqueueFold(Tail(ids), pod, clock,
                 [dl EXCEPT ![video_id] =
                    [@ EXCEPT !.status = "queued", !.error = "", !.updated_at = clock]],
                 adds, Append(njobs, job))

\* enqueue_downloads: the downloads table and the Jobs added once the request has
\* committed; a second row for one video id makes the commit raise and nothing is
\* stored. pod: the ids _get_podsync_downloads_cached reports
enqueue_downloads(ids, pod, clock, dl) ==
  LET r == EnqueueFold(ids, pod, clock, dl, <<>>, <<>>)
      clash == \E i, j \in DOMAIN r.adds : i # j /\ r.adds[i] = r.adds[j]
  IN IF clash THEN [downloads |-> dl, njobs |-> <<>>]
     ELSE [downloads |-> [v \in DOMAIN dl |->
                            IF v \in Range(r.adds) THEN DownloadRow("queued", "", NoFilename, clock)
                            ELSE r.dl[v]],
           njobs |-> r.njobs]

\* a re-enqueue that puts the failed Job of a video back to pending instead of
\* inserting a new Job for it
EnqueueDownloadsRetry(ids, pod) ==
  LET r == enqueue_downloads(ids, pod, now, downloads)
      wanted == {r.njobs[k].payload.video_id : k \in DOMAIN r.njobs}
      retried == {i \in DOMAIN jobs : /\ jobs[i].job_type = "download_video"
                                      /\ jobs[i].status = "failed"
                                      /\ jobs[i].payload.video_id \in wanted}
      fresh == SelectSeq(r.njobs, LAMBDA j :
                 \A i \in retried : jobs[i].payload.video_id # j.payload.video_id)
  IN /\ Len(jobs) + Len(fresh) <= MaxJobs
     /\ downloads' = r.downloads
     /\ jobs' = [i \in DOMAIN jobs |->
                   IF i \in retried THEN [jobs[i] EXCEPT !.status = "pending"] ELSE jobs[i]]
                 \o fresh
     /\ UNCHANGED <<videos, channels, file_vars, now, stop_event, w_vars, podsync_feeds, http>>

\* POST /api/downloads/enqueue
EnqueueDownloads(ids, pod) ==
  LET r == enqueue_downloads(ids, pod, now, downloads)
  IN /\ Len(jobs) + Len(r.njobs) <= MaxJobs
     /\ downloads' = r.downloads
     /\ jobs' = jobs \o r.njobs
     /\ UNCHANGED <<videos, channels, file_vars, now, stop_event, w_vars, podsync_feeds, http>>

\* POST /api/channels/{channel_id}/index
EnqueueIndex(channel_id) ==
  /\ channel_id \in DOMAIN channels
  /\ Len(jobs) < MaxJobs
  /\ jobs' = Append(jobs, NewJob("index_channel", Payload(channel_id, <<>>)))
  /\ UNCHANGED <<downloads, videos, channels, file_vars, now, stop_event, w_vars,
                 podsync_feeds, http>>

\* POST /api/feed/regenerate
RegenerateFeed ==
  /\ Len(jobs) < MaxJobs
  /\ jobs' = Append(jobs, NewJob("regenerate_manual_feed", NoPayload))
  /\ UNCHANGED <<downloads, videos, channels, file_vars, now, stop_event, w_vars,
                 podsync_feeds, http>>

\* POST /api/channels: the request thread itself regenerates the feeds
CreateChannel(url, name, meta, meta2, outcome) ==
  /\ \A i \in DOMAIN channels : channels[i].url # url
  /\ channels' = Append(channels, ChannelRow(url, name, NoDate))
  /\ RegenerateAllFeeds(channels', meta, meta2, outcome)
  /\ UNCHANGED <<jobs, downloads, media_files, now, stop_event, w_vars, podsync_feeds, http>>

\* POST /api/channels/sync_from_podsync
SyncChannelsFromPodsync(cfg, meta, meta2, outcome) ==
  LET r == sync_channels_from_podsync_config(channels, cfg)
  IN /\ ~r.raised
     /\ channels' = r.channels
     /\ RegenerateAllFeeds(r.channels, meta, meta2, outcome)
     /\ UNCHANGED <<jobs, downloads, media_files, now, stop_event, w_vars, podsync_feeds, http>>

\* GET /api/videos: the hydration of the videos that lack a publish date
ListVideos(meta) ==
  /\ videos' = {HydrateRow(v, meta[v.video_id]) : v \in videos}
  /\ videos' # videos
  /\ UNCHANGED <<jobs, downloads, channels, file_vars, now, stop_event, w_vars,
                 podsync_feeds, http>>

\* on_shutdown
Shutdown ==
  /\ ~stop_event
  /\ stop_event' = TRUE
  /\ UNCHANGED <<db_vars, file_vars, now, w_vars, podsync_feeds, http>>

\* datetime.utcnow() moves on
Tick ==
  /\ now < MaxTicks * podsync_feed_sync_interval_seconds
  /\ now' = now + podsync_feed_sync_interval_seconds
  /\ UNCHANGED <<db_vars, file_vars, stop_event, w_vars, podsync_feeds, http>>

(* ---------------------------- the specification ------------------------- *)
\* what the third-party tool has written: one feed for UrlA
PodsyncChoices ==
  {<<PodsyncFeed("a", UrlA, <<RawItem(Vid1, <<>>, TitleTalk, 2, 10)>>)>>}

\* what _get_podsync_downloads_cached reports as already downloaded by the
\* third-party tool
PodsyncDownloadChoices == {{}, {Vid1}}

\* rows other writers have left in the jobs table: of a known type, of an unknown
\* type, and for a Channel that is not in the channels table
MissingChannel == MaxChannels + 1
InitialJobs ==
  {<<>>, <<NewJob("index_channel", Payload(MissingChannel, <<>>))>>}
    \cup {<<NewJob(t, NoPayload)>> : t \in {"sync_podsync_feeds", "bogus"}}

\* the state on_startup leaves: the importer and regenerate_all_feeds have run and
\* the worker thread starts
Init ==
  /\ jobs \in InitialJobs
  /\ downloads = [v \in VideoIds |-> NoRow]
  /\ videos = {}
  /\ \E cfg \in ConfigChoices :
       channels = sync_channels_from_podsync_config(<<>>, cfg).channels
  /\ podsync_feeds \in PodsyncChoices
  /\ http = NoRequests
  /\ media_files = {}
  /\ manual_feed = <<>>
  /\ merged_files = regenerate_merged_feeds({}, channels, podsync_feeds, downloads, {}, 0)
  /\ now = 0
  /\ stop_event = FALSE
  /\ w_pc = "top"
  /\ w_job = NoJob
  /\ w_exc = NoExc
  /\ w_video = NoVideo
  /\ w_path = NoPath
  /\ next_feed_sync_at = 0

Worker ==
  \/ LoopTop
  \/ ClaimJob
  \/ \E listing \in Listings, failed \in BOOLEAN : HandleIndex(listing, failed)
  \/ \E metadata \in MetaChoices : HandleDownload(metadata)
  \/ \E failed \in BOOLEAN : DownloadFetch(failed)
  \/ DownloadMarkDone
  \/ \E meta \in FirstAnswers, outcome \in RegenOutcomes : \E meta2 \in SecondAnswers(meta) :
       DownloadRegenerate(meta, meta2, outcome)
  \/ \E meta \in FirstAnswers, outcome \in RegenOutcomes : \E meta2 \in SecondAnswers(meta) :
       HandleRegenerate(meta, meta2, outcome)
  \/ \E cfg \in ConfigChoices, meta \in MetaAnswers(HydrationIds(downloads, videos)), outcome \in RegenOutcomes :
       HandleSync(cfg, meta, outcome)
  \/ HandleUnknown
  \/ FinishDone
  \/ FinishFailed
  \/ FailDownload
  \/ \E cfg \in ConfigChoices, meta \in MetaAnswers(HydrationIds(downloads, videos)), outcome \in RegenOutcomes :
       PeriodicSync(cfg, meta, outcome)
  \/ SkipSync

Http ==
  \/ \E ids \in SeqsUpTo(VideoIds, MaxRequestIds), pod \in PodsyncDownloadChoices :
       EnqueueDownloads(ids, pod)
  \/ \E c \in 1..MaxChannels : EnqueueIndex(c)
  \/ RegenerateFeed
  \/ /\ Len(channels) < MaxChannels
     /\ \E url \in {UrlA, UrlASlash, UrlB}, name \in {"", "a"},
           meta \in FirstAnswers, outcome \in RegenOutcomes : \E meta2 \in SecondAnswers(meta) :
          CreateChannel(url, name, meta, meta2, outcome)
  \/ \E cfg \in ConfigChoices, meta \in FirstAnswers, outcome \in RegenOutcomes :
       \E meta2 \in SecondAnswers(meta) :
         /\ Len(sync_channels_from_podsync_config(channels, cfg).channels) <= MaxChannels
         /\ SyncChannelsFromPodsync(cfg, meta, meta2, outcome)
  \/ \E meta \in MetaAnswers({v.video_id : v \in {r \in videos : r.published_at = NoDate}}) :
       ListVideos(meta)

Next == Worker \/ Http \/ Shutdown \/ Tick

Spec == Init /\ [][Next]_vars

(* -------------------- the merge engine on its inputs -------------------- *)
\* <item> elements in one third-party feed
MaxFeedItems == 2
\* files in the merged directory before the pass
MaxOldFiles == 2

TitleEpisode3 == <<"e","p","i","s","o","d","e"," ","#","3">>
\* a guid that is no video id, and links that carry one
GuidG == <<"g">>
LinkTo(video_id) == <<"y","o","u","t","u",".","b","e","/">> \o video_id

\* the <item> elements the third-party tool may have written
RawItemChoices ==
  {RawItem(Vid1, <<>>, TitleTalk, 1, 40),
   RawItem(Vid1, <<>>, TitleTalk, 2, 10),
   RawItem(Vid2, <<>>, TitleEpisode12, 1, 10),
   RawItem(Vid1, <<>>, TitleEpisode3, 1, 10),
   RawItem(GuidG, LinkTo(Vid1), TitleTalk, 1, 10),
   RawItem(GuidG, LinkTo(Vid2), TitleTalk, 1, 10),
   RawItem(<<>>, <<>>, TitleTalk, NoDate, 10)}

\* the third-party feeds: none, or one for UrlA
MergeFeedChoices ==
  {<<>>} \cup {<<PodsyncFeed("a", UrlASlash, items)>> :
                 items \in SeqsUpTo(RawItemChoices, MaxFeedItems)}

\* the channels table: up to MaxChannels rows with different urls
MergeChannelChoices ==
  {chs \in SeqsUpTo({ChannelRow(UrlA, "a", NoDate), ChannelRow(UrlB, "", NoDate)},
                    MaxChannels) :
     \A i, j \in DOMAIN chs : i # j => chs[i].url # chs[j].url}

\* the videos that have a finished download: of channel 1, with and without their
\* metadata
MergeVideoChoices ==
  {{},
   {VideoRow(1, Vid1, TitleTalk, 40, 1)},
   {VideoRow(1, Vid2, TitleTalk, 0, NoDate)},
   {VideoRow(1, Vid1, TitleTalk, 40, 1), VideoRow(1, Vid2, TitleEpisode12, 10, 1)}}

\* the names found in the merged directory: a channel id, one with a leading zero,
\* and not a number
Stem1 == <<"1">>
Stem01 == <<"0","1">>
StemNotes == <<"n","o","t","e","s">>
OldFileChoices ==
  {F \in SUBSET {MergedFile(st, <<>>) : st \in {Stem1, Stem01, StemNotes}} :
     Cardinality(F) <= MaxOldFiles}

\* the worker has claimed a sync_podsync_feeds Job and is about to run it
MergeInit ==
  /\ jobs = <<[NewJob("sync_podsync_feeds", NoPayload) EXCEPT !.status = "running"]>>
  /\ videos \in MergeVideoChoices
  /\ downloads = [v \in VideoIds |->
                    IF \E r \in videos : r.video_id = v
                    THEN DownloadRow("done", "", MediaName(1, Untitled, v, 1), 1)
                    ELSE NoRow]
  /\ channels \in MergeChannelChoices
  /\ podsync_feeds \in MergeFeedChoices
  /\ http = NoRequests
  /\ media_files = {downloads[v].filename : v \in {u \in VideoIds : HasRow(downloads, u)}}
  /\ manual_feed = <<>>
  /\ merged_files \in OldFileChoices
  /\ now = podsync_feed_sync_interval_seconds
  /\ stop_event = FALSE
  /\ w_pc = "dispatch"
  /\ w_job = 1
  /\ w_exc = NoExc
  /\ w_video = NoVideo
  /\ w_path = NoPath
  /\ next_feed_sync_at = now + podsync_feed_sync_interval_seconds

MergeNext ==
  \/ \E cfg \in ConfigChoices, meta \in MetaAnswers(HydrationIds(downloads, videos)),
        outcome \in RegenOutcomes :
       HandleSync(cfg, meta, outcome)
  \/ FinishDone
  \/ FinishFailed

MergeSpec == MergeInit /\ [][MergeNext]_vars

(* ------------------ the channels table under its writers ---------------- *)
\* the Podsync config as the importer may find it: missing, one feed, two feeds
\* for different channels, and two feeds whose URLs differ by a trailing slash
ChannelConfigChoices ==
  {<<>>,
   <<ConfigFeed("a", UrlASlash)>>,
   <<ConfigFeed("b", UrlB)>>,
   <<ConfigFeed("a", UrlA), ConfigFeed("b", UrlB)>>,
   <<ConfigFeed("a", UrlA), ConfigFeed("b", UrlASlash)>>}

\* on_startup has run on an empty database; no Job is queued
ChannelInit ==
  /\ jobs = <<>>
  /\ downloads = [v \in VideoIds |-> NoRow]
  /\ videos = {}
  /\ \E cfg \in ChannelConfigChoices :
       /\ ~sync_channels_from_podsync_config(<<>>, cfg).raised
       /\ channels = sync_channels_from_podsync_config(<<>>, cfg).channels
  /\ podsync_feeds \in PodsyncChoices
  /\ http = NoRequests
  /\ media_files = {}
  /\ manual_feed = <<>>
  /\ merged_files = regenerate_merged_feeds({}, channels, podsync_feeds, downloads, {}, 0)
  /\ now = 0
  /\ stop_event = FALSE
  /\ w_pc = "top"
  /\ w_job = NoJob
  /\ w_exc = NoExc
  /\ w_video = NoVideo
  /\ w_path = NoPath
  /\ next_feed_sync_at = 0

\* the requests that write the channels table
ChannelNext ==
  \/ \E url \in {UrlA, UrlASlash, UrlB}, name \in {"", "n"},
        meta \in FirstAnswers, outcome \in RegenOutcomes : \E meta2 \in SecondAnswers(meta) :
       CreateChannel(url, name, meta, meta2, outcome)
  \/ \E cfg \in ChannelConfigChoices,
        meta \in FirstAnswers, outcome \in RegenOutcomes : \E meta2 \in SecondAnswers(meta) :
       SyncChannelsFromPodsync(cfg, meta, meta2, outcome)

ChannelSpec == ChannelInit /\ [][ChannelNext]_vars

(* ------------------- regenerate_all_feeds on its inputs ----------------- *)
\* a publish date that lies ahead of the clock of the first pass
FutureDate == podsync_feed_sync_interval_seconds + 150

\* the <item> elements of the third-party feed: dated, without a pubDate, and dated
\* ahead of the clock
RegenItemChoices ==
  {RawItem(Vid1, <<>>, TitleTalk, 1, 40),
   RawItem(Vid2, <<>>, TitleEpisode12, NoDate, 10),
   RawItem(GuidG, <<>>, TitleTalk, FutureDate, 10)}

RegenFeedChoices ==
  {<<>>} \cup {<<PodsyncFeed("a", UrlASlash, items)>> :
                 items \in SeqsUpTo(RegenItemChoices, MaxFeedItems)}

\* the worker has claimed a regenerate_manual_feed Job and is about to run it
RegenInit ==
  /\ jobs = <<[NewJob("regenerate_manual_feed", NoPayload) EXCEPT !.status = "running"]>>
  /\ videos \in MergeVideoChoices
  /\ downloads = [v \in VideoIds |->
                    IF \E r \in videos : r.video_id = v
                    THEN DownloadRow("done", "", MediaName(1, Untitled, v, 1), 1)
                    ELSE NoRow]
  /\ channels \in MergeChannelChoices
  /\ podsync_feeds \in RegenFeedChoices
  /\ http = NoRequests
  /\ media_files = {downloads[v].filename : v \in {u \in VideoIds : HasRow(downloads, u)}}
  /\ manual_feed = <<>>
  /\ merged_files \in OldFileChoices
  /\ now = podsync_feed_sync_interval_seconds
  /\ stop_event = FALSE
  /\ w_pc = "dispatch"
  /\ w_job = 1
  /\ w_exc = NoExc
  /\ w_video = NoVideo
  /\ w_path = NoPath
  /\ next_feed_sync_at = now + podsync_feed_sync_interval_seconds

RegenNext ==
  \/ \E meta \in FirstAnswers, outcome \in RegenOutcomes : \E meta2 \in SecondAnswers(meta) :
       HandleRegenerate(meta, meta2, outcome)
  \/ FinishDone
  \/ FinishFailed

RegenSpec == RegenInit /\ [][RegenNext]_vars

(* ------------- the VideoID extractor on the third-party feeds ----------- *)
\* main._looks_like_video_ref
Contains(s, lit) == \E i \in DOMAIN s : StartsAt(s, i, lit)
LowerStr(s) == [i \in DOMAIN s |-> Lower(s[i])]
LooksLikeRef(text) ==
  \/ Contains(text, <<"y","o","u","t","u">>)
  \/ Contains(text, <<"y","o","u","t","u","b","e",".","c","o","m">>)
  \/ Contains(text, <<"v","=">>)
  \/ Contains(text, <<":","/","/">>)
_looks_like_video_ref(value) == LooksLikeRef(LowerStr(Strip(value)))

\* ET.tostring(item, encoding="unicode"): character data is escaped, an element
\* without text is written as an empty tag
XmlEscapeChar(c) ==
  IF c = "&" THEN <<"&","a","m","p",";">>
  ELSE IF c = "<" THEN <<"&","l","t",";">>
  ELSE IF c = ">" THEN <<"&","g","t",";">>
  ELSE <<c>>
RECURSIVE XmlEscape(_)
XmlEscape(s) == IF s = <<>> THEN <<>> ELSE XmlEscapeChar(Head(s)) \o XmlEscape(Tail(s))
XmlElement(open, text, close, empty) ==
  IF text = <<>> THEN empty ELSE open \o XmlEscape(text) \o close
\* the <item> element with its guid, link and title children; the text of its
\* other children holds no video reference
ItemXmlText(item) ==
  <<"<","i","t","e","m",">">>
    \o XmlElement(<<"<","g","u","i","d",">">>, item.guid, <<"<","/","g","u","i","d",">">>, <<"<","g","u","i","d"," ","/",">">>)
    \o XmlElement(<<"<","l","i","n","k",">">>, item.link, <<"<","/","l","i","n","k",">">>, <<"<","l","i","n","k"," ","/",">">>)
    \o XmlElement(<<"<","t","i","t","l","e",">">>, item.title, <<"<","/","t","i","t","l","e",">">>, <<"<","t","i","t","l","e"," ","/",">">>)
    \o <<"<","/","i","t","e","m",">">>

\* main._iter_item_id_candidates: the stripped text of the children that looks
\* like a video reference; the children carry no url, href or src attribute
_iter_item_id_candidates(item) ==
  SelectSeq(<<Strip(item.guid), Strip(item.link), Strip(item.title)>>, _looks_like_video_ref)
\* for candidate in ...: video_id = _extract_video_id(candidate); break when found
RECURSIVE FirstExtracted(_)
FirstExtracted(candidates) ==
  IF candidates = <<>> THEN <<>>
  ELSE IF extract_video_id(Head(candidates)) # <<>> THEN extract_video_id(Head(candidates))
  ELSE FirstExtracted(Tail(candidates))
\* main._collect_podsync_downloads, the body of the loop over the <item> elements:
\* guid, link (there is no enclosure), then the children, then the serialized element
ItemVideoId(item) ==
  IF FirstExtracted(<<item.guid, item.link>>) # <<>>
  THEN FirstExtracted(<<item.guid, item.link>>)
  ELSE IF FirstExtracted(_iter_item_id_candidates(item)) # <<>>
       THEN FirstExtracted(_iter_item_id_candidates(item))
  ELSE extract_video_id(ItemXmlText(item))
\* the keys of found; the third-party directory holds no media files
_collect_podsync_downloads(feeds) ==
  UNION {{ItemVideoId(feeds[f].items[i]) : i \in DOMAIN feeds[f].items} : f \in DOMAIN feeds}
    \ {<<>>}

\* guid and link texts the third-party tool may write
ExampleUrl == <<"h","t","t","p","s",":","/","/","y","o","u","t","u",".","b","e","/","d","Q","w","4","w","9","W","g","X","c","Q">>
ExampleFile == <<"2","0","2","4","-","0","1","-","0","1","_","M","y","_","T","a","l","k","_","d","Q","w","4","w","9","W","g","X","c","Q",".","m","p","3">>
ExampleNone == <<"n","o","t"," ","a"," ","v","i","d","e","o">>
PlainId == <<"v","i","d","e","o","1">>
PaddedId == <<" ","v","i","d","e","o","2"," ">>
WatchUrl == <<"h","t","t","p","s",":","/","/","w","w","w",".","y","o","u","t","u","b","e",".","c","o","m","/","w","a","t","c","h","?","v","=","v","i","d","e","o","1">>
ShortsUrl == <<"h","t","t","p","s",":","/","/","w","w","w",".","y","o","u","t","u","b","e",".","c","o","m","/","s","h","o","r","t","s","/","v","i","d","e","o","1">>
ShortUrlWithQuery == <<"h","t","t","p","s",":","/","/","y","o","u","t","u",".","b","e","/","v","i","d","e","o","1","?","v","=","v","i","d","e","o","2">>
ShortUrlWithFile == <<"h","t","t","p","s",":","/","/","y","o","u","t","u",".","b","e","/","v","i","d","e","o","1","/","M","y","_","T","a","l","k","_","v","i","d","e","o","2",".","m","p","3">>
FileUnderscore == <<"M","y","_","v","i","d","e","o","1",".","m","p","3">>
FileSpaces == <<"m","y"," ","t","a","l","k"," ","v","i","d","e","o","2",".","m","p","3">>
FileTail == <<"T","a","l","k","_","v","i","d","e","o","1",".","m","p","3">>
ExampleId == <<"d","Q","w","4","w","9","W","g","X","c","Q">>
ExtractTexts ==
  {<<>>, ExampleUrl, ExampleFile, ExampleNone, PlainId,
   PaddedId, WatchUrl, ShortsUrl, ShortUrlWithQuery,
   ShortUrlWithFile, FileUnderscore, FileSpaces, FileTail}

\* the <item> elements of the third-party feed: every text as guid, with and
\* without a link, under a plain title and under a title that is a URL
ExtractItemChoices ==
  {RawItem(guid, link, title, 1, 10) :
     guid \in ExtractTexts, link \in {<<>>, LinkTo(Vid2)}, title \in {TitleTalk, ShortsUrl}}

ExtractFeedChoices == {<<PodsyncFeed("a", UrlASlash, <<item>>)>> : item \in ExtractItemChoices}

\* nothing downloaded yet, or Vid1 downloaded for channel 1
ExtractVideoChoices == {{}, {VideoRow(1, Vid1, TitleTalk, 40, 1)}}

\* the worker has claimed a sync_podsync_feeds Job and is about to run it, while
\* the API takes download requests
ExtractInit ==
  /\ jobs = <<[NewJob("sync_podsync_feeds", NoPayload) EXCEPT !.status = "running"]>>
  /\ videos \in ExtractVideoChoices
  /\ downloads = [v \in VideoIds |->
                    IF \E r \in videos : r.video_id = v
                    THEN DownloadRow("done", "", MediaName(1, Untitled, v, 1), 1)
                    ELSE NoRow]
  /\ channels = <<ChannelRow(UrlA, "a", NoDate)>>
  /\ podsync_feeds \in ExtractFeedChoices
  /\ http = NoRequests
  /\ media_files = {downloads[v].filename : v \in {u \in VideoIds : HasRow(downloads, u)}}
  /\ manual_feed = <<>>
  /\ merged_files = {}
  /\ now = podsync_feed_sync_interval_seconds
  /\ stop_event = FALSE
  /\ w_pc = "dispatch"
  /\ w_job = 1
  /\ w_exc = NoExc
  /\ w_video = NoVideo
  /\ w_path = NoPath
  /\ next_feed_sync_at = now + podsync_feed_sync_interval_seconds

ExtractNext ==
  \/ \E ids \in SeqsUpTo(VideoIds, MaxRequestIds) :
       EnqueueDownloads(ids, _collect_podsync_downloads(podsync_feeds))
  \/ \E cfg \in ConfigChoices, meta \in MetaAnswers(HydrationIds(downloads, videos)),
        outcome \in RegenOutcomes :
       HandleSync(cfg, meta, outcome)
  \/ FinishDone
  \/ FinishFailed

ExtractSpec == ExtractInit /\ [][ExtractNext]_vars

(* ------------------------- bare tokens as guids -------------------------- *)
\* the longest bare token a third-party feed carries as a guid
TokenMaxLen == 12
\* every token of id characters from IdMinLen to TokenMaxLen long, over a letter and
\* a separator of the stem's parts
TokenTexts == {t \in SeqsUpTo({"a", "-"}, TokenMaxLen) : Len(t) >= IdMinLen}
TokenFeedChoices ==
  {<<PodsyncFeed("a", UrlASlash, <<RawItem(guid, <<>>, TitleTalk, 1, 10)>>)>> : guid \in TokenTexts}

\* the worker has claimed a sync_podsync_feeds Job and is about to run it on a
\* third-party feed whose one item has a bare token as guid
TokenInit ==
  /\ jobs = <<[NewJob("sync_podsync_feeds", NoPayload) EXCEPT !.status = "running"]>>
  /\ videos = {}
  /\ downloads = [v \in VideoIds |-> NoRow]
  /\ channels = <<ChannelRow(UrlA, "a", NoDate)>>
  /\ podsync_feeds \in TokenFeedChoices
  /\ http = NoRequests
  /\ media_files = {}
  /\ manual_feed = <<>>
  /\ merged_files = {}
  /\ now = podsync_feed_sync_interval_seconds
  /\ stop_event = FALSE
  /\ w_pc = "dispatch"
  /\ w_job = 1
  /\ w_exc = NoExc
  /\ w_video = NoVideo
  /\ w_path = NoPath
  /\ next_feed_sync_at = now + podsync_feed_sync_interval_seconds

TokenNext ==
  \/ \E cfg \in ConfigChoices, meta \in MetaAnswers(HydrationIds(downloads, videos)),
        outcome \in RegenOutcomes :
       HandleSync(cfg, meta, outcome)
  \/ FinishDone
  \/ FinishFailed

TokenSpec == TokenInit /\ [][TokenNext]_vars

(* ------------------- the worker loop under shutdown --------------------- *)
\* the Jobs waiting when the worker thread starts: up to MaxJobs of them, of every
\* type
StopJobChoices ==
  SeqsUpTo({NewJob("index_channel", Payload(1, <<>>)),
            NewJob("download_video", Payload(0, Vid1)),
            NewJob("regenerate_manual_feed", NoPayload),
            NewJob("sync_podsync_feeds", NoPayload),
            NewJob("bogus", NoPayload)}, MaxJobs)

\* the worker thread starts on a database with one Channel and its Video Vid1,
\* queued for download when a download Job waits
StopInit ==
  /\ jobs \in StopJobChoices
  /\ videos = {VideoRow(1, Vid1, TitleTalk, 0, NoDate)}
  /\ downloads = [v \in VideoIds |->
                    IF \E i \in DOMAIN jobs : jobs[i].payload.video_id = v
                    THEN DownloadRow("queued", "", NoFilename, 0)
                    ELSE NoRow]
  /\ channels = <<ChannelRow(UrlA, "a", NoDate)>>
  /\ podsync_feeds \in PodsyncChoices
  /\ http = NoRequests
  /\ media_files = {}
  /\ manual_feed = <<>>
  /\ merged_files = regenerate_merged_feeds({}, channels, podsync_feeds, downloads, videos, 0)
  /\ now = 0
  /\ stop_event = FALSE
  /\ w_pc = "top"
  /\ w_job = NoJob
  /\ w_exc = NoExc
  /\ w_video = NoVideo
  /\ w_path = NoPath
  /\ next_feed_sync_at = 0

StopNext == Worker \/ Shutdown

\* the positions of the worker thread
WorkerPositions ==
  {"top", "claim", "dispatch", "dl_fetch", "dl_mark", "dl_regen", "finish_done",
   "finish_failed", "fail_download", "sync", "exited"}
\* the worker thread moves on: in every position but "exited" it can take a step,
\* and each of its steps changes its position
WorkerRuns == w_pc # "exited" /\ w_pc' \in WorkerPositions \ {w_pc}

\* the worker thread is scheduled as long as it is in the loop: its handlers and
\* its periodic sync return
StopSpec == StopInit /\ [][StopNext]_vars /\ WF_w_pc(WorkerRuns)

(* ------------------- the worker loop that is never stopped --------------- *)
\* the worker works off the table while the API keeps inserting Jobs and the clock
\* brings the periodic sync round; on_shutdown is never called
LiveNext ==
  \/ Worker
  \/ \E ids \in SeqsUpTo(VideoIds, MaxRequestIds), pod \in PodsyncDownloadChoices :
       EnqueueDownloads(ids, pod)
  \/ \E c \in 1..MaxChannels : EnqueueIndex(c)
  \/ RegenerateFeed
  \/ Tick

\* the worker thread is scheduled, and its handlers and its periodic sync return
\* or raise
LiveSpec == StopInit /\ [][LiveNext]_vars /\ WF_w_pc(WorkerRuns)

(* ----------------------- the end of the process ------------------------- *)
\* the server process ends once on_shutdown has returned: the worker is a daemon
\* thread that nothing joins, so the interpreter stops it wherever it is
ProcessExit ==
  /\ stop_event
  /\ w_pc # "ended"
  /\ w_pc' = "ended"
  /\ UNCHANGED <<db_vars, file_vars, now, stop_event, w_job, w_exc, w_video, w_path,
                 next_feed_sync_at, podsync_feeds, http>>

ShutdownNext == Worker \/ Shutdown \/ ProcessExit

ShutdownSpec == StopInit /\ [][ShutdownNext]_vars

(* ------------------------- the process starts again ---------------------- *)
\* on_startup on the database and the files the process before left: the importer,
\* regenerate_all_feeds, stop_event.clear() and a new worker thread. No Job is
\* touched. When the importer or the regeneration raises, the startup fails and
\* no thread is started
Startup(cfg, meta, meta2, outcome) ==
  /\ w_pc = "ended"
  /\ Len(sync_channels_from_podsync_config(channels, cfg).channels) <= MaxChannels
  /\ channels' = sync_channels_from_podsync_config(channels, cfg).channels
  /\ IF sync_channels_from_podsync_config(channels, cfg).raised
       THEN UNCHANGED <<videos, manual_feed, merged_files, stop_event, w_pc,
                        next_feed_sync_at>>
     ELSE /\ RegenerateAllFeeds(channels', meta, meta2, outcome)
          /\ IF outcome = "ok"
               THEN stop_event' = FALSE /\ w_pc' = "top" /\ next_feed_sync_at' = now
             ELSE UNCHANGED <<stop_event, w_pc, next_feed_sync_at>>
  /\ w_job' = NoJob
  /\ w_exc' = NoExc
  /\ w_video' = NoVideo
  /\ w_path' = NoPath
  /\ UNCHANGED <<jobs, downloads, media_files, now, podsync_feeds, http>>

LifecycleNext ==
  \/ Worker
  \/ Shutdown
  \/ ProcessExit
  \/ \E cfg \in ConfigChoices, meta \in FirstAnswers, outcome \in RegenOutcomes :
       \E meta2 \in SecondAnswers(meta) : Startup(cfg, meta, meta2, outcome)

LifecycleSpec == StopInit /\ [][LifecycleNext]_vars

(* ------------------- _write_feed_file, write by write ------------------- *)
\* the document _write_feed_file builds, line by line: the head with its
\* lastBuildDate, the xml of the items, the tail
FeedDocument(items, clock) ==
  <<<<"head", clock>>>> \o [i \in DOMAIN items |-> items[i].xml] \o <<<<"tail">>>>
\* Path.write_text: open(path, "w") empties the file, then the text goes out in
\* pieces; one more piece of doc is in the file
NextChunk(file, doc) == SubSeq(doc, 1, Len(file) + 1)

\* regenerate_merged_feeds: the channels a file is written for, and their documents
MergedTargetItems == ChannelMergedItems(channels, podsync_feeds, downloads, videos, now)
MergedTargets == {c \in DOMAIN channels : MergedTargetItems[c] # <<>>}
MergedTarget(c) == MergedFile(Str(c), FeedDocument(MergedTargetItems[c], now))
\* the channels of the loop whose file is not written yet
PendingTargets == {c \in MergedTargets : MergedTarget(c) \notin merged_files}

\* regenerate_manual_feed, write_text: the manual feed file is opened for writing
WriteManualOpen ==
  /\ w_pc = "dispatch"
  /\ jobs[w_job].job_type = "regenerate_manual_feed"
  /\ manual_feed' = <<>>
  /\ w_pc' = "manual_write"
  /\ UNCHANGED <<db_vars, media_files, merged_files, now, stop_event, w_job, w_exc,
                 w_video, w_path, next_feed_sync_at, podsync_feeds, http>>

\* regenerate_manual_feed, write_text: the next piece is written
WriteManualChunk ==
  /\ w_pc = "manual_write"
  /\ manual_feed' = NextChunk(manual_feed,
                              FeedDocument(regenerate_manual_feed(downloads, videos), now))
  /\ w_pc' = IF manual_feed' = FeedDocument(regenerate_manual_feed(downloads, videos), now)
             THEN "merged_open" ELSE "manual_write"
  /\ UNCHANGED <<db_vars, media_files, merged_files, now, stop_event, w_job, w_exc,
                 w_video, w_path, next_feed_sync_at, podsync_feeds, http>>

\* regenerate_merged_feeds, write_text: the file of the next channel is opened
WriteMergedOpen ==
  /\ w_pc = "merged_open"
  /\ PendingTargets # {}
  /\ merged_files' = {f \in merged_files : f.stem # Str(Min(PendingTargets))}
                       \cup {MergedFile(Str(Min(PendingTargets)), <<>>)}
  /\ w_pc' = "merged_write"
  /\ UNCHANGED <<db_vars, media_files, manual_feed, now, stop_event, w_job, w_exc,
                 w_video, w_path, next_feed_sync_at, podsync_feeds, http>>

\* regenerate_merged_feeds, write_text: the next piece is written
WriteMergedChunk ==
  /\ w_pc = "merged_write"
  /\ LET c == Min(PendingTargets)
         cur == CHOOSE f \in merged_files : f.stem = Str(c)
         next == MergedFile(Str(c), NextChunk(cur.items, MergedTarget(c).items))
     IN /\ merged_files' = (merged_files \ {cur}) \cup {next}
        /\ w_pc' = IF next = MergedTarget(c) THEN "merged_open" ELSE "merged_write"
  /\ UNCHANGED <<db_vars, media_files, manual_feed, now, stop_event, w_job, w_exc,
                 w_video, w_path, next_feed_sync_at, podsync_feeds, http>>

\* regenerate_merged_feeds, the cleanup loop: the files of the channels without a
\* document are unlinked
MergedCleanup ==
  /\ w_pc = "merged_open"
  /\ PendingTargets = {}
  /\ merged_files' = {f \in merged_files :
                        IsIntStem(f.stem) => StemInt(f.stem) \in MergedTargets}
  /\ Returned
  /\ UNCHANGED <<db_vars, media_files, manual_feed, now, stop_event, w_job, w_video,
                 w_path, next_feed_sync_at, podsync_feeds, http>>

\* the videos with a finished download: all of them dated, so that nothing is
\* looked up
WriteVideoChoices ==
  {{},
   {VideoRow(1, Vid1, TitleTalk, 40, 1)},
   {VideoRow(1, Vid1, TitleTalk, 40, 1), VideoRow(1, Vid2, TitleEpisode12, 10, 1)}}
\* the documents an earlier pass wrote at time 0
OldDocuments ==
  {FeedDocument(<<>>, 0),
   FeedDocument(<<FeedItem(Vid1, Vid1, 1, NoEpisode, <<"manual", Vid1>>, 0)>>, 0)}
OldMergedChoices ==
  {{}, {MergedFile(Stem1, FeedDocument(<<>>, 0))},
   {MergedFile(Stem1, FeedDocument(<<>>, 0)), MergedFile(Stem01, FeedDocument(<<>>, 0))}}

\* the worker has claimed a regenerate_manual_feed Job and is about to run it, the
\* feed files of an earlier pass being in place
WriteInit ==
  /\ jobs = <<[NewJob("regenerate_manual_feed", NoPayload) EXCEPT !.status = "running"]>>
  /\ videos \in WriteVideoChoices
  /\ downloads = [v \in VideoIds |->
                    IF \E r \in videos : r.video_id = v
                    THEN DownloadRow("done", "", MediaName(1, Untitled, v, 1), 1)
                    ELSE NoRow]
  /\ channels = <<ChannelRow(UrlA, "a", NoDate)>>
  /\ podsync_feeds \in {<<>>} \cup PodsyncChoices
  /\ http = NoRequests
  /\ media_files = {downloads[v].filename : v \in {u \in VideoIds : HasRow(downloads, u)}}
  /\ manual_feed \in OldDocuments
  /\ merged_files \in OldMergedChoices
  /\ now = podsync_feed_sync_interval_seconds
  /\ stop_event = FALSE
  /\ w_pc = "dispatch"
  /\ w_job = 1
  /\ w_exc = NoExc
  /\ w_video = NoVideo
  /\ w_path = NoPath
  /\ next_feed_sync_at = now + podsync_feed_sync_interval_seconds

WriteNext ==
  \/ WriteManualOpen
  \/ WriteManualChunk
  \/ WriteMergedOpen
  \/ WriteMergedChunk
  \/ MergedCleanup
  \/ FinishDone

WriteSpec == WriteInit /\ [][WriteNext]_vars

(* ------------------- two worker loops on the same store ----------------- *)
\* the threads that run worker_loop against the same database; w_pc, w_job and
\* w_exc hold one value per thread
NumConsumers == 2
Consumers == 1..NumConsumers

\* worker_loop of thread k: while not stop_event.is_set()
LoopTopBy(k) ==
  /\ w_pc[k] = "top"
  /\ w_pc' = [w_pc EXCEPT ![k] = IF stop_event THEN "exited" ELSE "claim"]
  /\ UNCHANGED <<db_vars, file_vars, now, stop_event, w_job, w_exc, w_video, w_path,
                 next_feed_sync_at, podsync_feeds, http>>

\* process_next_job of thread k, the first session: the select returns the first
\* pending Job; nothing is written and nothing is locked
SelectBy(k) ==
  /\ w_pc[k] = "claim"
  /\ w_job' = [w_job EXCEPT ![k] = SelectJob(jobs)]
  /\ w_pc' = [w_pc EXCEPT ![k] = IF SelectJob(jobs) = NoJob THEN "sync" ELSE "update"]
  /\ UNCHANGED <<db_vars, file_vars, now, stop_event, w_exc, w_video, w_path,
                 next_feed_sync_at, podsync_feeds, http>>

\* a claim that compares before it sets: UPDATE ... WHERE id = ? AND status =
\* 'pending', and a thread that lost the Job goes on without it
ClaimByIfPending(k) ==
  /\ w_pc[k] = "update"
  /\ IF jobs[w_job[k]].status = "pending"
       THEN /\ jobs' = [jobs EXCEPT ![w_job[k]].status = "running"]
            /\ w_pc' = [w_pc EXCEPT ![k] = "dispatch"]
     ELSE /\ w_pc' = [w_pc EXCEPT ![k] = "sync"]
          /\ UNCHANGED jobs
  /\ UNCHANGED <<downloads, videos, channels, file_vars, now, stop_event, w_job, w_exc,
                 w_video, w_path, next_feed_sync_at, podsync_feeds, http>>
\* process_next_job of thread k, the first session: job.status = "running" and the
\* commit, which writes UPDATE jobs SET status = 'running' WHERE id = ?
ClaimBy(k) ==
  /\ w_pc[k] = "update"
  /\ jobs' = [jobs EXCEPT ![w_job[k]].status = "running"]
  /\ w_pc' = [w_pc EXCEPT ![k] = "dispatch"]
  /\ UNCHANGED <<downloads, videos, channels, file_vars, now, stop_event, w_job, w_exc,
                 w_video, w_path, next_feed_sync_at, podsync_feeds, http>>

\* process_next_job of thread k: session.get(Job, job_id) and the handler of a
\* regenerate_manual_feed Job
HandleRegenerateBy(k, meta, meta2, outcome) ==
  /\ w_pc[k] = "dispatch"
  /\ jobs[w_job[k]].job_type = "regenerate_manual_feed"
  /\ RegenerateAllFeeds(channels, meta, meta2, outcome)
  /\ w_pc' = [w_pc EXCEPT ![k] = IF outcome = "ok" THEN "finish_done" ELSE "finish_failed"]
  /\ w_exc' = [w_exc EXCEPT ![k] = IF outcome = "ok" THEN NoExc ELSE "os_error"]
  /\ UNCHANGED <<jobs, downloads, channels, media_files, now, stop_event, w_job,
                 w_video, w_path, next_feed_sync_at, podsync_feeds, http>>

\* process_next_job of thread k: session.get(Job, job_id) and the else branch
HandleUnknownBy(k) ==
  /\ w_pc[k] = "dispatch"
  /\ jobs[w_job[k]].job_type \notin {"index_channel", "download_video",
                                     "regenerate_manual_feed", "sync_podsync_feeds"}
  /\ w_pc' = [w_pc EXCEPT ![k] = "finish_failed"]
  /\ w_exc' = [w_exc EXCEPT ![k] = "unknown_job_type"]
  /\ UNCHANGED <<db_vars, file_vars, now, stop_event, w_job, w_video, w_path,
                 next_feed_sync_at, podsync_feeds, http>>

\* process_next_job of thread k: mark the Job done
FinishDoneBy(k) ==
  /\ w_pc[k] = "finish_done"
  /\ jobs' = [jobs EXCEPT ![w_job[k]].status = "done", ![w_job[k]].error = ""]
  /\ w_pc' = [w_pc EXCEPT ![k] = "sync"]
  /\ UNCHANGED <<downloads, videos, channels, file_vars, now, stop_event, w_job,
                 w_exc, w_video, w_path, next_feed_sync_at, podsync_feeds, http>>

\* process_next_job of thread k, the except clause: mark the Job failed
FinishFailedBy(k) ==
  /\ w_pc[k] = "finish_failed"
  /\ jobs' = [jobs EXCEPT ![w_job[k]].status = "failed",
                          ![w_job[k]].error = StrExc(w_exc[k])]
  /\ w_pc' = [w_pc EXCEPT ![k] = "sync"]
  /\ UNCHANGED <<downloads, videos, channels, file_vars, now, stop_event, w_job,
                 w_exc, w_video, w_path, next_feed_sync_at, podsync_feeds, http>>

\* worker_loop of thread k: the sync is not due, stop_event.wait(poll_interval)
SkipSyncBy(k) ==
  /\ w_pc[k] = "sync"
  /\ ~SyncDue
  /\ w_pc' = [w_pc EXCEPT ![k] = "top"]
  /\ UNCHANGED <<db_vars, file_vars, now, stop_event, w_job, w_exc, w_video, w_path,
                 next_feed_sync_at, podsync_feeds, http>>

\* on_shutdown, with the threads of this section
ShutdownAll ==
  /\ ~stop_event
  /\ stop_event' = TRUE
  /\ UNCHANGED <<db_vars, file_vars, now, w_vars, podsync_feeds, http>>

\* the Jobs waiting when the threads start
TwoJobChoices ==
  SeqsUpTo({NewJob(t, NoPayload) : t \in {"regenerate_manual_feed", "bogus"}}, MaxJobs)
    \ {<<>>}

\* both threads at the top of an iteration, the first sync of each behind them
TwoInit ==
  /\ jobs \in TwoJobChoices
  /\ downloads = [v \in VideoIds |-> NoRow]
  /\ videos = {}
  /\ channels = <<ChannelRow(UrlA, "a", NoDate)>>
  /\ podsync_feeds \in PodsyncChoices
  /\ http = NoRequests
  /\ media_files = {}
  /\ manual_feed = regenerate_manual_feed(downloads, videos)
  /\ merged_files = regenerate_merged_feeds({}, channels, podsync_feeds, downloads, {}, 0)
  /\ now = 0
  /\ stop_event = FALSE
  /\ w_pc = [k \in Consumers |-> "top"]
  /\ w_job = [k \in Consumers |-> NoJob]
  /\ w_exc = [k \in Consumers |-> NoExc]
  /\ w_video = NoVideo
  /\ w_path = NoPath
  /\ next_feed_sync_at = podsync_feed_sync_interval_seconds

TwoNext ==
  \/ \E k \in Consumers : LoopTopBy(k)
  \/ \E k \in Consumers : SelectBy(k)
  \/ \E k \in Consumers : ClaimBy(k)
  \/ \E k \in Consumers, meta \in FirstAnswers, outcome \in RegenOutcomes :
       \E meta2 \in SecondAnswers(meta) : HandleRegenerateBy(k, meta, meta2, outcome)
  \/ \E k \in Consumers : HandleUnknownBy(k)
  \/ \E k \in Consumers : FinishDoneBy(k)
  \/ \E k \in Consumers : FinishFailedBy(k)
  \/ \E k \in Consumers : SkipSyncBy(k)
  \/ ShutdownAll

TwoSpec == TwoInit /\ [][TwoNext]_vars

(* ---------------------------- the config file ---------------------------- *)
\* the file at podsync_config_path: kind says whether it exists, parses and has a
\* feeds table; entries are the values of that table in file order, is_table saying
\* whether the value is itself a table, url being the text of its url key ("" when
\* the key is missing or empty)
ConfigFile(kind, entries) == [kind |-> kind, entries |-> entries]
ConfigEntry(feed_id, is_table, url) == [feed_id |-> feed_id, is_table |-> is_table, url |-> url]

\* sync_channels_from_podsync_config, the loop: if not isinstance(feed_cfg, dict):
\* continue
RECURSIVE TableEntries(_)
TableEntries(entries) ==
  IF entries = <<>> THEN <<>>
  ELSE IF Head(entries).is_table
    THEN <<ConfigFeed(Head(entries).feed_id, Head(entries).url)>> \o TableEntries(Tail(entries))
  ELSE TableEntries(Tail(entries))

\* an importer that lets the parser's exception through
sync_channels_from_config_file_raising(chs, file) ==
  IF file.kind = "unparsable" THEN [channels |-> chs, added |-> 0, raised |-> TRUE]
  ELSE IF file.kind \in {"missing", "no_feeds"}
    THEN [channels |-> chs, added |-> 0, raised |-> FALSE]
  ELSE sync_channels_from_podsync_config(chs, TableEntries(file.entries))
\* sync_channels_from_podsync_config from the file on: the three early returns, then
\* the loop over the feeds table
sync_channels_from_config_file(chs, file) ==
  IF file.kind \in {"missing", "unparsable", "no_feeds"}
    THEN [channels |-> chs, added |-> 0, raised |-> FALSE]
  ELSE sync_channels_from_podsync_config(chs, TableEntries(file.entries))

\* process_next_job, job_type sync_podsync_feeds, the config file being file
HandleSyncFile(file, meta, outcome) ==
  /\ w_pc = "dispatch"
  /\ jobs[w_job].job_type = "sync_podsync_feeds"
  /\ outcome # "manual_fails"
  /\ channels' = sync_channels_from_config_file(channels, file).channels
  /\ IF sync_channels_from_config_file(channels, file).raised
       THEN UNCHANGED <<videos, manual_feed, merged_files>> /\ Raised("integrity")
     ELSE /\ RegenerateMergedFeeds(sync_channels_from_config_file(channels, file).channels,
                                   meta, outcome)
          /\ IF outcome = "ok" THEN Returned ELSE Raised("os_error")
  /\ UNCHANGED <<jobs, downloads, media_files, now, stop_event, w_job, w_video,
                 w_path, next_feed_sync_at, podsync_feeds, http>>

\* config files: absent, not TOML, without a feeds table, and with a feeds table
\* whose entries are tables or not, with a URL or without
ConfigFileChoices ==
  {ConfigFile(k, <<>>) : k \in {"missing", "unparsable", "no_feeds", "ok"}}
    \cup {ConfigFile("ok", es) : es \in
           {<<ConfigEntry("a", TRUE, UrlASlash)>>,
            <<ConfigEntry("x", FALSE, <<>>), ConfigEntry("b", TRUE, UrlB)>>,
            <<ConfigEntry("e", TRUE, <<>>), ConfigEntry("b", TRUE, UrlB),
              ConfigEntry("s", TRUE, <<"/">>), ConfigEntry("x", FALSE, UrlA)>>,
            <<ConfigEntry("x", FALSE, UrlB), ConfigEntry("w", TRUE, <<" ">>)>>,
            <<ConfigEntry("a", TRUE, UrlA), ConfigEntry("x", FALSE, <<>>),
              ConfigEntry("b", TRUE, UrlASlash)>>}}

\* the worker is about to take the first of the sync Jobs waiting
FileInit ==
  /\ jobs \in {<<NewJob("sync_podsync_feeds", NoPayload)>>,
               <<NewJob("sync_podsync_feeds", NoPayload),
                 NewJob("sync_podsync_feeds", NoPayload)>>}
  /\ downloads = [v \in VideoIds |-> NoRow]
  /\ videos = {}
  /\ channels \in {<<>>, <<ChannelRow(UrlA, "", NoDate)>>}
  /\ podsync_feeds \in PodsyncChoices
  /\ http = NoRequests
  /\ media_files = {}
  /\ manual_feed = <<>>
  /\ merged_files = regenerate_merged_feeds({}, channels, podsync_feeds, downloads, {}, 0)
  /\ now = 0
  /\ stop_event = FALSE
  /\ w_pc = "claim"
  /\ w_job = NoJob
  /\ w_exc = NoExc
  /\ w_video = NoVideo
  /\ w_path = NoPath
  /\ next_feed_sync_at = podsync_feed_sync_interval_seconds

FileNext ==
  \/ LoopTop
  \/ ClaimJob
  \/ \E file \in ConfigFileChoices, meta \in MetaAnswers(HydrationIds(downloads, videos)),
        outcome \in RegenOutcomes : HandleSyncFile(file, meta, outcome)
  \/ FinishDone
  \/ FinishFailed
  \/ SkipSync

FileSpec == FileInit /\ [][FileNext]_vars

(* ------------------------- the text of an error ------------------------- *)
\* the declared capacity of Job.error and Download.error: String(2048)
ErrorColumnLen == 2048
\* what the command wrote to stderr: n characters
Stderr(n) == [i \in 1..n |-> "e"]
StderrChoices == {Stderr(n) : n \in {0, 1, ErrorColumnLen}}
\* ytdlp.run_command: RuntimeError(f"Command failed: {' '.join(cmd)}\n{stderr}")
CommandFailedText(stderr) ==
  <<"C","o","m","m","a","n","d"," ","f","a","i","l","e","d",":"," ">>
    \o <<"y","t","-","d","l","p">> \o <<"\n">> \o stderr

\* _handle_download: ytdlp.download_video raises, the command having written stderr;
\* w_exc holds the message of the exception
DownloadFetchRaises(stderr) ==
  /\ w_pc = "dl_fetch"
  /\ w_exc' = CommandFailedText(stderr)
  /\ w_pc' = "finish_failed"
  /\ UNCHANGED <<db_vars, file_vars, now, stop_event, w_job, w_video, w_path,
                 next_feed_sync_at, podsync_feeds, http>>

\* process_next_job, the except clause, first session: job.error = str(exc)
FinishFailedText ==
  /\ w_pc = "finish_failed"
  /\ jobs' = [jobs EXCEPT ![w_job].status = "failed", ![w_job].error = w_exc]
  /\ w_pc' = IF jobs[w_job].job_type = "download_video" THEN "fail_download" ELSE "sync"
  /\ UNCHANGED <<downloads, videos, channels, file_vars, now, stop_event, w_job,
                 w_exc, w_video, w_path, next_feed_sync_at, podsync_feeds, http>>

\* process_next_job, the except clause, second session: record.error = str(exc)
FailDownloadText ==
  /\ w_pc = "fail_download"
  /\ downloads' =
       IF HasRow(downloads, jobs[w_job].payload.video_id)
       THEN [downloads EXCEPT ![jobs[w_job].payload.video_id] =
               [@ EXCEPT !.status = "failed", !.error = w_exc, !.updated_at = now]]
       ELSE downloads
  /\ w_pc' = "sync"
  /\ UNCHANGED <<jobs, videos, channels, file_vars, now, stop_event, w_job, w_exc,
                 w_video, w_path, next_feed_sync_at, podsync_feeds, http>>

\* download Jobs wait for indexed Videos; the first sync of the loop is behind it
ErrorInit ==
  /\ jobs \in SeqsUpTo({NewJob("download_video", Payload(0, v)) : v \in {Vid1, Vid2}},
                       MaxJobs) \ {<<>>}
  /\ videos = {VideoRow(1, Vid1, TitleTalk, 0, NoDate), VideoRow(1, Vid2, TitleTalk, 0, 1)}
  /\ downloads = [v \in VideoIds |->
                    IF \E i \in DOMAIN jobs : jobs[i].payload.video_id = v
                    THEN DownloadRow("queued", "", NoFilename, 0)
                    ELSE NoRow]
  /\ channels = <<ChannelRow(UrlA, "a", NoDate)>>
  /\ podsync_feeds \in PodsyncChoices
  /\ http = NoRequests
  /\ media_files = {}
  /\ manual_feed = <<>>
  /\ merged_files = regenerate_merged_feeds({}, channels, podsync_feeds, downloads, videos, 0)
  /\ now = 0
  /\ stop_event = FALSE
  /\ w_pc = "top"
  /\ w_job = NoJob
  /\ w_exc = NoExc
  /\ w_video = NoVideo
  /\ w_path = NoPath
  /\ next_feed_sync_at = podsync_feed_sync_interval_seconds

ErrorNext ==
  \/ LoopTop
  \/ ClaimJob
  \/ \E metadata \in MetaChoices \ {GatewayFails} : HandleDownload(metadata)
  \/ \E stderr \in StderrChoices : DownloadFetchRaises(stderr)
  \/ FinishFailedText
  \/ FailDownloadText
  \/ SkipSync

ErrorSpec == ErrorInit /\ [][ErrorNext]_vars

(* --------------------- a media directory with files --------------------- *)
\* the name build_filename gives the download of Vid1 as indexed, and the names
\* resolve_dest_path tries after it
BaseName == build_filename(1, TitleTalk, Vid1, 0)
Candidate(base, i) == [base EXCEPT !.n = i]
Taken(suffixes) == {BaseName} \cup {Candidate(BaseName, i) : i \in suffixes}
\* what the media directory holds when the worker starts
CollisionChoices ==
  {{}, {Candidate(BaseName, FirstSuffix)}, Taken({}), Taken({FirstSuffix}),
   Taken({FirstSuffix + 1}), Taken(FirstSuffix..(LastSuffix - 1)),
   Taken((FirstSuffix..LastSuffix) \ {FirstSuffix + 1}), Taken(FirstSuffix..LastSuffix)}

\* download Jobs for Vid1 wait, the media directory holding files of earlier runs
CollideInit ==
  /\ jobs \in SeqsUpTo({NewJob("download_video", Payload(0, Vid1))}, MaxJobs) \ {<<>>}
  /\ videos = {VideoRow(1, Vid1, TitleTalk, 0, 1)}
  /\ downloads = [v \in VideoIds |->
                    IF v = Vid1 THEN DownloadRow("queued", "", NoFilename, 0) ELSE NoRow]
  /\ channels = <<ChannelRow(UrlA, "a", NoDate)>>
  /\ podsync_feeds \in PodsyncChoices
  /\ http = NoRequests
  /\ media_files \in CollisionChoices
  /\ manual_feed = <<>>
  /\ merged_files = regenerate_merged_feeds({}, channels, podsync_feeds, downloads, videos, 0)
  /\ now = 0
  /\ stop_event = FALSE
  /\ w_pc = "top"
  /\ w_job = NoJob
  /\ w_exc = NoExc
  /\ w_video = NoVideo
  /\ w_path = NoPath
  /\ next_feed_sync_at = podsync_feed_sync_interval_seconds

CollideNext ==
  \/ LoopTop
  \/ ClaimJob
  \/ \E metadata \in MetaChoices : HandleDownload(metadata)
  \/ \E failed \in BOOLEAN : DownloadFetch(failed)
  \/ DownloadMarkDone
  \/ \E meta \in FirstAnswers, outcome \in RegenOutcomes : \E meta2 \in SecondAnswers(meta) :
       DownloadRegenerate(meta, meta2, outcome)
  \/ FinishDone
  \/ FinishFailed
  \/ FailDownload
  \/ SkipSync

CollideSpec == CollideInit /\ [][CollideNext]_vars

(* --------------------- enqueue requests side by side --------------------- *)
\* enqueue_downloads of handler h up to db.commit(): the loop has run its selects
\* against the tables as they are now; the session holds the rows it changed
\* (updates), the rows it added (adds) and the Jobs it added (njobs), unflushed
EnqueueBegin(h, ids, pod) ==
  /\ http[h] = NoRequest
  /\ LET r == EnqueueFold(ids, pod, now, downloads, <<>>, <<>>)
     IN http' = [http EXCEPT ![h] =
                   [phase |-> "commit",
                    updates |-> {v \in VideoIds : r.dl[v] # downloads[v]},
                    adds |-> r.adds,
                    njobs |-> r.njobs,
                    clock |-> now]]
  /\ UNCHANGED <<db_vars, file_vars, now, stop_event, w_vars, podsync_feeds>>

\* the Jobs table may hold one Job more than the other specifications allow
EnqueueJobCap == MaxJobs + 1

\* enqueue_downloads of handler h, db.commit(): the flush writes an UPDATE by
\* primary key for every changed row, an INSERT for every added row and Job; a
\* video id that has a row by now (or is added twice) breaks the unique constraint
\* and nothing is stored
EnqueueCommit(h) ==
  /\ http[h] # NoRequest
  /\ Len(jobs) + Len(http[h].njobs) <= EnqueueJobCap
  /\ LET r == http[h]
         clash == \/ \E i, j \in DOMAIN r.adds : i # j /\ r.adds[i] = r.adds[j]
                  \/ \E i \in DOMAIN r.adds : HasRow(downloads, r.adds[i])
     IN IF clash THEN UNCHANGED <<downloads, jobs>>
        ELSE /\ downloads' =
                  [v \in VideoIds |->
                     IF v \in Range(r.adds) THEN DownloadRow("queued", "", NoFilename, r.clock)
                     ELSE IF v \in r.updates
                       THEN [downloads[v] EXCEPT !.status = "queued", !.error = "",
                                                 !.updated_at = r.clock]
                     ELSE downloads[v]]
             /\ jobs' = jobs \o r.njobs
  /\ http' = [http EXCEPT ![h] = NoRequest]
  /\ UNCHANGED <<videos, channels, file_vars, now, stop_event, w_vars, podsync_feeds>>

\* Vid1 is indexed; its download has not been asked for, or has failed
EnqueueInit ==
  /\ jobs \in {<<>>,
               <<[NewJob("download_video", Payload(0, Vid1))
                    EXCEPT !.status = "failed", !.error = StrExc("command_failed")]>>}
  /\ videos = {VideoRow(1, Vid1, TitleTalk, 0, 1)}
  /\ downloads = [v \in VideoIds |->
                    IF v = Vid1 /\ jobs # <<>>
                    THEN DownloadRow("failed", StrExc("command_failed"), NoFilename, 0)
                    ELSE NoRow]
  /\ channels = <<ChannelRow(UrlA, "a", NoDate)>>
  /\ podsync_feeds \in PodsyncChoices
  /\ http = NoRequests
  /\ media_files = {}
  /\ manual_feed = <<>>
  /\ merged_files = regenerate_merged_feeds({}, channels, podsync_feeds, downloads, videos, 0)
  /\ now = 0
  /\ stop_event = FALSE
  /\ w_pc = "top"
  /\ w_job = NoJob
  /\ w_exc = NoExc
  /\ w_video = NoVideo
  /\ w_path = NoPath
  /\ next_feed_sync_at = podsync_feed_sync_interval_seconds

EnqueueNext ==
  \/ LoopTop
  \/ ClaimJob
  \/ \E metadata \in MetaChoices : HandleDownload(metadata)
  \/ \E failed \in BOOLEAN : DownloadFetch(failed)
  \/ DownloadMarkDone
  \/ \E meta \in FirstAnswers, outcome \in RegenOutcomes : \E meta2 \in SecondAnswers(meta) :
       DownloadRegenerate(meta, meta2, outcome)
  \/ FinishDone
  \/ FinishFailed
  \/ FailDownload
  \/ SkipSync
  \/ \E h \in Handlers, ids \in SeqsUpTo(VideoIds, MaxRequestIds),
        pod \in PodsyncDownloadChoices : EnqueueBegin(h, ids, pod)
  \/ \E h \in Handlers : EnqueueCommit(h)

EnqueueSpec == EnqueueInit /\ [][EnqueueNext]_vars

(* ------------------- listings with more than one entry ------------------ *)
\* what ytdlp.index_channel may list: entries for the two video ids, dated or not,
\* an id possibly more than once
IndexEntryChoices ==
  {ListingEntry(v, TitleTalk, 0, d) : v \in VideoIds, d \in {NoDate, 1}}
IndexListings == SeqsUpTo(IndexEntryChoices, MaxListing + 1)

\* index_channel Jobs wait for a Channel whose Vid1 may be indexed already
IndexInit ==
  /\ jobs \in SeqsUpTo({NewJob("index_channel", Payload(1, <<>>))}, MaxJobs) \ {<<>>}
  /\ videos \in {{}, {VideoRow(1, Vid1, TitleTalk, 0, NoDate)}}
  /\ downloads = [v \in VideoIds |-> NoRow]
  /\ channels = <<ChannelRow(UrlA, "a", NoDate)>>
  /\ podsync_feeds \in PodsyncChoices
  /\ http = NoRequests
  /\ media_files = {}
  /\ manual_feed = <<>>
  /\ merged_files = regenerate_merged_feeds({}, channels, podsync_feeds, downloads, videos, 0)
  /\ now = podsync_feed_sync_interval_seconds
  /\ stop_event = FALSE
  /\ w_pc = "top"
  /\ w_job = NoJob
  /\ w_exc = NoExc
  /\ w_video = NoVideo
  /\ w_path = NoPath
  /\ next_feed_sync_at = now + podsync_feed_sync_interval_seconds

IndexNext ==
  \/ LoopTop
  \/ ClaimJob
  \/ \E listing \in IndexListings, failed \in BOOLEAN : HandleIndex(listing, failed)
  \/ FinishDone
  \/ FinishFailed
  \/ SkipSync

IndexSpec == IndexInit /\ [][IndexNext]_vars

(* ------------------- one video id under two Channels -------------------- *)
\* the Jobs that wait: a download of Vid1, an index run of the second Channel and
\* a regeneration, in the orders that matter
ManualJobChoices ==
  {<<NewJob("download_video", Payload(0, Vid1)), NewJob("index_channel", Payload(2, <<>>)),
     NewJob("regenerate_manual_feed", NoPayload)>>,
   <<NewJob("index_channel", Payload(2, <<>>)), NewJob("download_video", Payload(0, Vid1))>>,
   <<NewJob("download_video", Payload(0, Vid1)), NewJob("regenerate_manual_feed", NoPayload)>>}

\* two Channels, Vid1 indexed under the first and queued for download
ManualInit ==
  /\ jobs \in ManualJobChoices
  /\ videos = {VideoRow(1, Vid1, TitleTalk, 0, 1)}
  /\ downloads = [v \in VideoIds |->
                    IF v = Vid1 THEN DownloadRow("queued", "", NoFilename, 0) ELSE NoRow]
  /\ channels = <<ChannelRow(UrlA, "a", NoDate), ChannelRow(UrlB, "b", NoDate)>>
  /\ podsync_feeds \in PodsyncChoices
  /\ http = NoRequests
  /\ media_files = {}
  /\ manual_feed = <<>>
  /\ merged_files = regenerate_merged_feeds({}, channels, podsync_feeds, downloads, videos, 0)
  /\ now = 0
  /\ stop_event = FALSE
  /\ w_pc = "top"
  /\ w_job = NoJob
  /\ w_exc = NoExc
  /\ w_video = NoVideo
  /\ w_path = NoPath
  /\ next_feed_sync_at = podsync_feed_sync_interval_seconds

ManualNext ==
  \/ LoopTop
  \/ ClaimJob
  \/ \E listing \in Listings, failed \in BOOLEAN : HandleIndex(listing, failed)
  \/ \E metadata \in MetaChoices : HandleDownload(metadata)
  \/ \E failed \in BOOLEAN : DownloadFetch(failed)
  \/ DownloadMarkDone
  \/ \E meta \in FirstAnswers, outcome \in RegenOutcomes : \E meta2 \in SecondAnswers(meta) :
       DownloadRegenerate(meta, meta2, outcome)
  \/ \E meta \in FirstAnswers, outcome \in RegenOutcomes : \E meta2 \in SecondAnswers(meta) :
       HandleRegenerate(meta, meta2, outcome)
  \/ FinishDone
  \/ FinishFailed
  \/ FailDownload
  \/ SkipSync

ManualSpec == ManualInit /\ [][ManualNext]_vars

(* --------------------- GET /api/videos, row by row ---------------------- *)
\* hydrate_budget = 20
HydrateBudget == 20
\* limit: int = 100
DefaultLimit == 100
\* the Channels whose Videos fill the table: two Videos each
ListChannels == 11

\* select(Video).order_by(null_rank, desc(published_at)).limit(limit): the dated
\* rows first, newest first, then the undated ones
ListQuery(vs, limit) ==
  LET dated == SetToSeq({v \in vs : v.published_at # NoDate})
      sorted == SortedReverse([i \in DOMAIN dated |->
                  [key |-> SortKey(<<dated[i].published_at>>, <<>>), val |-> dated[i]]])
      all == sorted \o SetToSeq({v \in vs : v.published_at = NoDate})
  IN SubSeq(all, 1, IF Len(all) < limit THEN Len(all) ELSE limit)

\* what the Gateway answers to the lookups of one request: it fails the first
\* fail_first of them and answers the later ones with answer
GatewayPlan(fail_first, answer) == [fail_first |-> fail_first, answer |-> answer]
GatewayPlans ==
  {GatewayPlan(k, m) : k \in {0, 1, 2 * ListChannels}, m \in {MetaBlank, MetaFull}}
PlannedAnswer(plan, lookup) ==
  IF lookup <= plan.fail_first THEN GatewayFails ELSE plan.answer

\* list_videos up to the loop: the query has run, the budget is full
ListBegin(h, limit, plan) ==
  /\ \A g \in Handlers : http[g] = NoRequest
  /\ http' = [http EXCEPT ![h] =
                [phase |-> "hydrate", rows |-> ListQuery(videos, limit), pos |-> 1,
                 hydrate_budget |-> HydrateBudget, lookups |-> 0, updated |-> FALSE,
                 plan |-> plan]]
  /\ UNCHANGED <<db_vars, file_vars, now, stop_event, w_vars, podsync_feeds>>

\* one round of "for video in videos": a dated video is passed over; a lookup
\* that raises is passed over too, the budget as it was; a lookup that answers
\* fills the empty fields and takes one from the budget
ListStep(h) ==
  /\ http[h].phase = "hydrate"
  /\ http[h].pos <= Len(http[h].rows)
  /\ http[h].hydrate_budget > 0
  /\ LET r == http[h]
         video == r.rows[r.pos]
         metadata == PlannedAnswer(r.plan, r.lookups + 1)
     IN http' = [http EXCEPT ![h] =
          IF video.published_at # NoDate THEN [r EXCEPT !.pos = @ + 1]
          ELSE IF metadata = GatewayFails
               THEN [r EXCEPT !.pos = @ + 1, !.lookups = @ + 1]
          ELSE [r EXCEPT !.pos = @ + 1, !.lookups = @ + 1,
                         !.rows[r.pos] = HydrateRow(video, metadata),
                         !.updated = @ \/ HydrateRow(video, metadata) # video,
                         !.hydrate_budget = @ - 1]]
  /\ UNCHANGED <<db_vars, file_vars, now, stop_event, w_vars, podsync_feeds>>

\* the loop is over: "if updated: db.commit()" and the response
ListReturn(h) ==
  /\ http[h].phase = "hydrate"
  /\ http[h].pos > Len(http[h].rows) \/ http[h].hydrate_budget <= 0
  /\ videos' = IF http[h].updated
               THEN {IF \E i \in DOMAIN http[h].rows :
                          /\ http[h].rows[i].channel_id = v.channel_id
                          /\ http[h].rows[i].video_id = v.video_id
                     THEN http[h].rows[CHOOSE i \in DOMAIN http[h].rows :
                                         /\ http[h].rows[i].channel_id = v.channel_id
                                         /\ http[h].rows[i].video_id = v.video_id]
                     ELSE v : v \in videos}
               ELSE videos
  /\ http' = [http EXCEPT ![h] = NoRequest]
  /\ UNCHANGED <<jobs, downloads, channels, file_vars, now, stop_event, w_vars,
                 podsync_feeds>>

\* a table of undated Videos, more of them than the budget; no Job, no worker step
ListInit ==
  /\ jobs = <<>>
  /\ videos = {VideoRow(c, v, TitleTalk, 0, NoDate) : c \in 1..ListChannels, v \in VideoIds}
  /\ downloads = [v \in VideoIds |-> NoRow]
  /\ channels = [c \in 1..ListChannels |-> ChannelRow(UrlA \o <<c>>, "a", NoDate)]
  /\ podsync_feeds \in PodsyncChoices
  /\ http = NoRequests
  /\ media_files = {}
  /\ manual_feed = <<>>
  /\ merged_files = {}
  /\ now = 0
  /\ stop_event = FALSE
  /\ w_pc = "top"
  /\ w_job = NoJob
  /\ w_exc = NoExc
  /\ w_video = NoVideo
  /\ w_path = NoPath
  /\ next_feed_sync_at = now + podsync_feed_sync_interval_seconds

ListNext ==
  \/ \E h \in Handlers, limit \in {HydrateBudget, DefaultLimit}, plan \in GatewayPlans :
       ListBegin(h, limit, plan)
  \/ \E h \in Handlers : ListStep(h)
  \/ \E h \in Handlers : ListReturn(h)

ListSpec == ListInit /\ [][ListNext]_vars

(* ------------------------ the job queue: C1 .. C6 ----------------------- *)
Terminal == {"done", "failed"}

\* a step of the worker thread: each of its steps moves w_pc, and no request does
WorkerStep == w_pc' # w_pc
\* a step of a request handler (or of the clock, or the shutdown hook)
HttpStep == w_pc' = w_pc

\* the video id in the payload of the Job the worker holds
JobVideoId == jobs[w_job].payload.video_id

\* C1: Job status only moves forward. No step removes a Job, and a step that changes
\* the status of a Job takes it from pending to running, from running to done or
\* from running to failed; so a failed Job is never claimed again.
JobStatusMonotonic ==
  [][\A i \in DOMAIN jobs :
       /\ i \in DOMAIN jobs'
       /\ jobs'[i].status # jobs[i].status =>
            <<jobs[i].status, jobs'[i].status>> \in
              {<<"pending", "running">>, <<"running", "done">>, <<"running", "failed">>}]_vars

\* C1, the case: a Job has failed and process_next_job has since claimed another one
FailedJobPassedOver ==
  \E i \in DOMAIN jobs :
    jobs[i].status = "failed" /\ w_pc = "dispatch" /\ w_job # i

\* the steps of the except clause leave the Job failed with an error text, and the
\* worker in the loop
ExceptClauseFailsJob ==
  (w_pc \in {"finish_failed", "fail_download"} /\ WorkerStep)
  => (/\ jobs'[w_job].status = "failed"
      /\ jobs'[w_job].error # ""
      /\ w_pc' \in {"fail_download", "sync"})

\* the worker leaves the loop only at its top, and only with stop_event set
ExitsOnlyOnStop ==
  (WorkerStep /\ w_pc' = "exited") => (w_pc = "top" /\ stop_event)

\* after the poll wait the worker is back at the top of the loop, and from there it
\* goes on to claim the next Job unless stop_event is set
LoopGoesOn ==
  /\ (WorkerStep /\ w_pc = "sync") => w_pc' = "top"
  /\ (WorkerStep /\ w_pc = "top" /\ ~stop_event) => w_pc' = "claim"
  /\ (WorkerStep /\ w_pc = "claim" /\ \E j \in DOMAIN jobs : jobs[j].status = "pending")
       => (w_pc' = "dispatch" /\ jobs[w_job'].status = "pending"
           /\ jobs'[w_job'].status = "running")

\* C2: a handler that raises leaves its Job failed with a non-empty error; the
\* worker loop does not end on it (it ends only once stop_event is set); and on the
\* iterations that follow the next pending Job is claimed.
RaisingHandlerFailsJobOnly ==
  [][ExceptClauseFailsJob /\ ExitsOnlyOnStop /\ LoopGoesOn]_vars

\* C2, the case: one Job has failed with an error text and a later Job has run to
\* its end
JobRanAfterFailure ==
  \E i, j \in DOMAIN jobs :
    /\ i < j
    /\ jobs[i].status = "failed" /\ jobs[i].error # ""
    /\ jobs[j].status = "done"

\* C3: Jobs are consumed in the order of their ids. A Job that is no longer pending
\* has only Jobs with a terminal status before it: none with a smaller id was
\* pending when it was claimed, and each of them ended before it did.
JobsConsumedFifo ==
  \A i, j \in DOMAIN jobs :
    (i < j /\ jobs[j].status # "pending") => jobs[i].status \in Terminal

\* C3, the case: two Jobs were waiting and the worker has taken the first
FirstOfTwoClaimed ==
  /\ Len(jobs) = 2
  /\ jobs[1].status = "running"
  /\ jobs[2].status = "pending"

\* the iteration of a failed download_video Job ends, and the Job's video id has a
\* Download: it is failed, with the Job's error and the time of the step
MarksDownloadFailed ==
  (/\ w_pc \in {"finish_failed", "fail_download"}
   /\ w_pc' = "sync"
   /\ jobs[w_job].job_type = "download_video"
   /\ HasRow(downloads, JobVideoId))
  => (/\ jobs'[w_job].status = "failed"
      /\ downloads'[JobVideoId].status = "failed"
      /\ downloads'[JobVideoId].error = jobs'[w_job].error
      /\ downloads'[JobVideoId].updated_at = now)

\* the worker steps that handle a Job of another type and mark it failed
OtherJobTypesLeaveDownloads ==
  (/\ w_pc \in {"dispatch", "finish_failed", "fail_download"}
   /\ WorkerStep
   /\ jobs[w_job].job_type # "download_video")
  => downloads' = downloads

\* C4: when the iteration of a failed download_video Job ends, the Download of the
\* Job's video id, if there is one, is failed, carries the Job's error and has its
\* timestamp refreshed; the worker steps of a Job of another type leave the
\* downloads table alone.
FailedDownloadJobMarksDownload ==
  [][/\ MarksDownloadFailed
     /\ OtherJobTypesLeaveDownloads]_vars

\* C4, the case: a download_video Job has failed after its Download was created, and
\* its iteration has ended
DownloadJobFailedWithRow ==
  /\ w_pc = "sync"
  /\ w_job # NoJob
  /\ jobs[w_job].job_type = "download_video"
  /\ jobs[w_job].status = "failed"
  /\ HasRow(downloads, JobVideoId)
  /\ downloads[JobVideoId].status = "failed"
  /\ downloads[JobVideoId].error = jobs[w_job].error
  /\ downloads[JobVideoId].updated_at > 0

\* the requests POST /api/downloads/enqueue can carry
EnqueueRequests == SeqsUpTo(VideoIds, MaxRequestIds) \X PodsyncDownloadChoices

\* C5: whatever the request, enqueue_downloads leaves a Download that is queued,
\* running or done as it is and adds no Job for its video id; every Job it adds is
\* for a video id that has no Download or a failed one.
EnqueueSkipsLiveDownloads ==
  \A req \in EnqueueRequests :
    LET r == enqueue_downloads(req[1], req[2], now, downloads)
    IN /\ \A v \in VideoIds :
            (HasRow(downloads, v) /\ downloads[v].status \in {"queued", "running", "done"}) =>
              /\ r.downloads[v] = downloads[v]
              /\ \A k \in DOMAIN r.njobs : r.njobs[k].payload.video_id # v
       /\ \A k \in DOMAIN r.njobs :
            /\ r.njobs[k].job_type = "download_video"
            /\ ~HasRow(downloads, r.njobs[k].payload.video_id)
                 \/ downloads[r.njobs[k].payload.video_id].status = "failed"

\* C5, the case: a Download is done, and a request naming it and a video without a
\* Download adds one Job, for the other video
EnqueueNamesDoneDownload ==
  \E v, u \in VideoIds :
    /\ HasRow(downloads, v) /\ downloads[v].status = "done"
    /\ ~HasRow(downloads, u)
    /\ Len(enqueue_downloads(<<v, u>>, {}, now, downloads).njobs) = 1

MergeDone == w_pc = "finish_done" /\ jobs[w_job].job_type = "sync_podsync_feeds"

\* what the pass read for channel c: the third-party items, then the manual items
ChannelPodsyncItems(c) == PodsyncItems(MatchFeed(channels[c], podsync_feeds).items, now)
ChannelManualItems(c) ==
  _manual_feed_items(downloads,
                     SelectSeq(_load_manual_rows(downloads, videos),
                               LAMBDA v : v.channel_id = c))
InputItems(c) == ChannelPodsyncItems(c) \o ChannelManualItems(c)

\* the channels that have at least one item
WithItems == {c \in DOMAIN channels : InputItems(c) # <<>>}

\* the merged file of channel c
HasFile(c) == \E f \in merged_files : f.stem = Str(c)
FileItems(c) == (CHOOSE f \in merged_files : f.stem = Str(c)).items

KeysOf(items) == {items[i].dedupe_key : i \in DOMAIN items}
WithKey(items, k) == {items[i] : i \in {j \in DOMAIN items : items[j].dedupe_key = k}}

\* x is at least as rich as y: longer description, or as long and not older
AtLeastAsRich(x, y) ==
  \/ x.description_len > y.description_len
  \/ x.description_len = y.description_len /\ x.pub_date >= y.pub_date

\* C7: after a merge pass the file of a channel holds, for every dedupe key among
\* the channel's items, exactly one item with that key: one of the input items, at
\* least as long as every other, and as late as every other of its length.
MergeKeepsRichest ==
  MergeDone =>
    \A c \in WithItems :
      /\ HasFile(c)
      /\ KeysOf(FileItems(c)) = KeysOf(InputItems(c))
      /\ \A i, j \in DOMAIN FileItems(c) :
           FileItems(c)[i].dedupe_key = FileItems(c)[j].dedupe_key => i = j
      /\ \A i \in DOMAIN FileItems(c) :
           /\ FileItems(c)[i] \in WithKey(InputItems(c), FileItems(c)[i].dedupe_key)
           /\ \A x \in WithKey(InputItems(c), FileItems(c)[i].dedupe_key) :
                AtLeastAsRich(FileItems(c)[i], x)

\* C7, the case: two items shared a key and a description length, and the file has
\* the later one
LaterOfEquallyLongKept ==
  /\ MergeDone
  /\ \E c \in WithItems : \E i, j \in DOMAIN InputItems(c) :
       /\ InputItems(c)[i].dedupe_key = InputItems(c)[j].dedupe_key
       /\ InputItems(c)[i].description_len = InputItems(c)[j].description_len
       /\ InputItems(c)[i].pub_date < InputItems(c)[j].pub_date
       /\ InputItems(c)[j] \in Range(FileItems(c))

\* the items the merge loop keeps when the manual items are supplied first
SwappedSurvivors(c) ==
  Range(MergeByKey(ChannelManualItems(c) \o ChannelPodsyncItems(c), <<>>))

\* C8 as stated: the file holds the items the merge keeps when the two lists are
\* swapped.
MergeIgnoresSide ==
  MergeDone => \A c \in WithItems : Range(FileItems(c)) = SwappedSurvivors(c)

\* the first of the items with key k that no other item with the key is richer than
FirstRichest(items, k) ==
  items[Min({i \in DOMAIN items :
               /\ items[i].dedupe_key = k
               /\ \A x \in WithKey(items, k) : AtLeastAsRich(items[i], x)})]

\* the items with key k that tie with x on description length and publish date
TiedWith(items, k, x) ==
  {y \in WithKey(items, k) :
     y.description_len = x.description_len /\ y.pub_date = x.pub_date}

\* C8, amended: for every key the file holds the first of the richest items, the
\* third-party items counting as supplied first. With the lists swapped the survivor
\* has the same description length and publish date, and it is the same item unless
\* several items with the key tie on both.
MergeIgnoresSideButForTies ==
  MergeDone =>
    \A c \in WithItems : \A k \in KeysOf(InputItems(c)) :
      LET kept == FirstRichest(InputItems(c), k)
      IN /\ kept \in Range(FileItems(c))
         /\ \A y \in {z \in SwappedSurvivors(c) : z.dedupe_key = k} :
              /\ y.description_len = kept.description_len
              /\ y.pub_date = kept.pub_date
              /\ y # kept => Cardinality(TiedWith(InputItems(c), k, kept)) >= 2

\* C8, the case: a third-party item and a longer manual item shared a key, and the
\* file has the manual one
LongerManualItemKept ==
  /\ MergeDone
  /\ \E c \in WithItems :
       \E i \in DOMAIN ChannelPodsyncItems(c), j \in DOMAIN ChannelManualItems(c) :
         /\ ChannelPodsyncItems(c)[i].dedupe_key = ChannelManualItems(c)[j].dedupe_key
         /\ ChannelPodsyncItems(c)[i].description_len
              < ChannelManualItems(c)[j].description_len
         /\ ChannelManualItems(c)[j] \in Range(FileItems(c))
\* x has an episode number
HasEpisode(x) == x.episode_number # NoEpisode

\* x may stand right before y: later date; on equal dates an episode number before
\* none, then the greater episode number; on a tie of these the guid that is not
\* lexically less
MayPrecede(x, y) ==
  \/ x.pub_date > y.pub_date
  \/ /\ x.pub_date = y.pub_date
     /\ \/ HasEpisode(x) /\ ~HasEpisode(y)
        \/ /\ HasEpisode(x) = HasEpisode(y)
           /\ \/ x.episode_number > y.episode_number
              \/ x.episode_number = y.episode_number /\ ~StrLess(x.guid, y.guid)

InStatedOrder(items) ==
  \A i \in DOMAIN items : i < Len(items) => MayPrecede(items[i], items[i + 1])

\* no two of the items share a dedupe key; no two share a guid
DistinctKeys(items) ==
  \A i, j \in DOMAIN items : i # j => items[i].dedupe_key # items[j].dedupe_key
DistinctGuids(items) ==
  \A i, j \in DOMAIN items : i # j => items[i].guid # items[j].guid

\* the items supplied in every other order
Reorderings(items) ==
  {[i \in DOMAIN items |-> items[f[i]]] : f \in Permutations(DOMAIN items)}

\* whatever the order the items are supplied in, the merge gives the file's sequence
OrderIndependent(c) ==
  \A r \in Reorderings(InputItems(c)) : MergedItems(r, <<>>) = FileItems(c)

FileIds == {StemInt(f.stem) : f \in {g \in merged_files : IsIntStem(g.stem)}}
\* the files whose stem is not an integer
OtherFiles == {f \in merged_files : ~IsIntStem(f.stem)}

\* C10: a completed merge pass leaves numerically named files for exactly the
\* channels that have an item, each with its <id>.xml holding the merged items, and
\* leaves the files whose stem is not an integer as they were.
MergedDirMatchesChannels ==
  /\ [](MergeDone =>
          /\ FileIds = WithItems
          /\ \A c \in WithItems : HasFile(c) /\ FileItems(c) # <<>>)
  /\ [][(w_pc = "dispatch" /\ MergeDone') => OtherFiles' = OtherFiles]_vars

\* C10, the case: the pass has written the file of channel 1 and left a file that
\* is not named by a number, and no file stands for another id
StaleFilesGoneOthersKept ==
  /\ MergeDone
  /\ WithItems = {1}
  /\ HasFile(1)
  /\ FileItems(1) # <<>>
  /\ MergedFile(StemNotes, <<>>) \in merged_files
  /\ FileIds = {1}

(* --------------------- the Channel Importer: C11, C12 ------------------- *)
\* the normalized URLs a config names
ConfigUrls(cfg) == {_normalize_url(cfg[k].url) : k \in DOMAIN cfg} \ {<<>>}
\* the URLs of the rows of a channels table
TableUrls(chs) == {chs[i].url : i \in DOMAIN chs}

\* C11: from any table the program reaches and for any config, a run of the importer
\* returns, adds one Channel for each URL of the config that has none, and renames
\* no Channel that has a name; a second run on the same config then returns 0 and
\* leaves the table as the first run left it.
ImporterIsIdempotent ==
  \A cfg \in ChannelConfigChoices :
    LET first == sync_channels_from_podsync_config(channels, cfg)
        second == sync_channels_from_podsync_config(first.channels, cfg)
    IN /\ ~first.raised
       /\ first.added = Cardinality(ConfigUrls(cfg) \ TableUrls(channels))
       /\ Len(first.channels) = Len(channels) + first.added
       /\ \A i \in DOMAIN channels :
            channels[i].name # "" => first.channels[i].name = channels[i].name
       /\ ~second.raised
       /\ second.added = 0
       /\ second.channels = first.channels

\* C12: no two rows of the channels table have the same normalized URL.
NormalizedUrlsUnique ==
  \A i, j \in DOMAIN channels :
    i # j => _normalize_url(channels[i].url) # _normalize_url(channels[j].url)

(* ------------------------ feed regeneration: C13 ------------------------ *)
\* a regenerate_all_feeds pass has completed
RegenDone == w_pc = "finish_done" /\ jobs[w_job].job_type = "regenerate_manual_feed"

\* what a feed file holds besides lastBuildDate: the rendered items, in order
Contents(items) == [i \in DOMAIN items |-> items[i].xml]
FileContents(files) == {[stem |-> f.stem, xml |-> Contents(f.items)] : f \in files}

\* the clock of a later pass
LaterClocks == {now, now + podsync_feed_sync_interval_seconds}

\* a pass run from the current state, the Gateway answering m1 and then m2, leaves
\* the manual feed and the merged feeds with the contents they have
SecondPassSame(m1, m2, clock) ==
  /\ Contents(regenerate_manual_feed(downloads, HydrateVideos(downloads, videos, m1)))
       = Contents(manual_feed)
  /\ FileContents(regenerate_merged_feeds(
                    merged_files, channels, podsync_feeds, downloads,
                    HydrateVideos(downloads, HydrateVideos(downloads, videos, m1), m2),
                    clock))
       = FileContents(merged_files)

\* C13 as stated: after a pass, a second pass over the same rows and third-party
\* feeds writes the same items in the same order with the same content.
RegenerationIsIdempotent ==
  RegenDone =>
    \A m1 \in FirstAnswers, clock \in LaterClocks :
      \A m2 \in SecondAnswers(m1) : SecondPassSame(m1, m2, clock)

\* no Video with a finished Download lacks a publish date: there is nothing for
\* _load_manual_rows to look up
NothingToLookUp == HydrationIds(downloads, videos) = {}
\* every <item> of the third-party feeds has a pubDate that parses
AllDated ==
  \A k \in DOMAIN podsync_feeds :
    \A i \in DOMAIN podsync_feeds[k].items : podsync_feeds[k].items[i].pub_date # NoDate

\* C13, amended: when the first pass found no Video to look up and every third-party
\* item is dated, a second pass over the same rows and feeds, at the same or at a
\* later time, writes the same items in the same order with the same content.
RegenerationIsIdempotentWithoutLookups ==
  [][(w_pc = "dispatch" /\ w_pc' = "finish_done" /\ NothingToLookUp /\ AllDated) =>
       \A clock \in LaterClocks :
         /\ Contents(regenerate_manual_feed(downloads, videos)) = Contents(manual_feed')
         /\ FileContents(regenerate_merged_feeds(merged_files', channels, podsync_feeds,
                                                  downloads, videos, clock))
              = FileContents(merged_files')]_vars

\* C13, the case: a pass over two dated Videos and dated third-party items has
\* written a manual feed of two items and a merged feed of channel 1
PassWithoutLookupsDone ==
  /\ RegenDone
  /\ videos = {VideoRow(1, Vid1, TitleTalk, 40, 1), VideoRow(1, Vid2, TitleEpisode12, 10, 1)}
  /\ AllDated
  /\ Len(manual_feed) = 2
  /\ \E f \in merged_files : f.stem = Stem1 /\ Len(f.items) >= 2

(* -------------------------- Video refreshes: C14 ------------------------ *)
\* row u carries every field that row v has filled
KeepsFilledFields(v, u) ==
  /\ u.channel_id = v.channel_id
  /\ u.video_id = v.video_id
  /\ (v.title # <<>> => u.title # <<>>)
  /\ (v.description_len > 0 => u.description_len > 0)
  /\ (v.published_at # NoDate => u.published_at # NoDate)

\* C14: no step replaces a stored, non-empty title, description or publish date of
\* a Video by an empty one.
RefreshKeepsFilledFields ==
  [][\A v \in videos : \E u \in videos' : KeepsFilledFields(v, u)]_vars

(* --------------------- the VideoID extractor: C15, C16 ------------------ *)
\* the guid texts of the third-party feeds
GuidTexts ==
  UNION {{podsync_feeds[f].items[i].guid : i \in DOMAIN podsync_feeds[f].items} :
           f \in DOMAIN podsync_feeds}

\* the ids that follow a known URL shape somewhere in text
UrlShapes == UNION {URL_VIDEO_ID_PATTERNS[k] : k \in DOMAIN URL_VIDEO_ID_PATTERNS}
UrlShapeIds(text) ==
  {IdAfter(text, p[1] + Len(p[2])) :
     p \in {q \in (DOMAIN text) \X UrlShapes :
              StartsAt(text, q[1], q[2]) /\ IdRun(text, q[1] + Len(q[2]), IdMaxLen) >= IdMinLen}}

QueuedDownloads ==
  {jobs[j].payload.video_id : j \in {k \in DOMAIN jobs : jobs[k].job_type = "download_video"}}

\* C15: the extractor gives dQw4w9WgXcQ for the example URL and the example file
\* name and the empty string for "not a video"; for a text that holds a known URL
\* shape it gives an id that follows such a shape, whatever the file name heuristics
\* find; and the API queues no download for an id the extractor reads from a guid.
ExtractorFollowsStrategies ==
  \A text \in GuidTexts :
    /\ text = ExampleUrl => extract_video_id(text) = ExampleId
    /\ text = ExampleFile => extract_video_id(text) = ExampleId
    /\ text = ExampleNone => extract_video_id(text) = <<>>
    /\ UrlShapeIds(text) # {} => extract_video_id(text) \in UrlShapeIds(text)
    /\ extract_video_id(text) \notin QueuedDownloads

\* a guid whose URL shape names Vid1 and whose file name ends in another id, after a
\* request that queued Vid2
UrlShapeBeatsFileName ==
  /\ ShortUrlWithFile \in GuidTexts
  /\ FromFilePart(ShortUrlWithFile, PathName(BeforeQuery(ShortUrlWithFile))) \notin {<<>>, Vid1}
  /\ QueuedDownloads = {Vid2}

\* the <item> element a third-party FeedItem was read from
RawOf(x) == [guid |-> x.xml[2], link |-> x.xml[3], title |-> x.xml[4]]
\* the key the candidates of the item give through the extractor, else the guid
CascadeKey(x) == IF ItemVideoId(RawOf(x)) # <<>> THEN ItemVideoId(RawOf(x)) ELSE x.guid

\* C16: after a merge pass every third-party item carries the key that its guid,
\* link, children and serialized XML give through the VideoID extractor (the guid
\* when none gives an id), and a third-party item and a manual item for the same
\* video id share their key and are one item of the merged file.
MergeKeyFollowsExtractor ==
  MergeDone =>
    \A c \in DOMAIN channels :
      \A x \in Range(ChannelPodsyncItems(c)) :
        /\ x.dedupe_key = CascadeKey(x)
        /\ \A m \in Range(ChannelManualItems(c)) :
             CascadeKey(x) = m.guid =>
               /\ x.dedupe_key = m.dedupe_key
               /\ Cardinality({i \in DOMAIN FileItems(c) :
                                 FileItems(c)[i].guid \in {x.guid, m.guid}}) = 1

(* ----------------------- jobs that cannot be handled: C17 --------------- *)
\* the Job the worker holds has an unknown type, or names a Channel or a Video
\* that is not there
Unhandlable ==
  \/ jobs[w_job].job_type \notin {"index_channel", "download_video",
                                  "regenerate_manual_feed", "sync_podsync_feeds"}
  \/ /\ jobs[w_job].job_type = "index_channel"
     /\ jobs[w_job].payload.channel_id \notin DOMAIN channels
  \/ /\ jobs[w_job].job_type = "download_video"
     /\ \A v \in videos : v.video_id # jobs[w_job].payload.video_id
UnhandledErrors == {"unknown_job_type", "channel_not_found", "video_not_found"}
OtherJobsSame == \A i \in DOMAIN jobs : i # w_job => jobs'[i] = jobs[i]

\* C17: dispatching a Job of an unknown type, or one whose Channel or Video does
\* not exist, raises and changes no row; the except clause then marks that Job, and
\* no other, failed and the loop goes on to its periodic sync; from the dispatch to
\* the end of the except clause no Channel or Video row changes.
UnhandledJobFailsAlone ==
  [][/\ (w_pc = "dispatch" /\ w_pc' # w_pc /\ Unhandlable) =>
          /\ w_pc' = "finish_failed"
          /\ w_exc' \in UnhandledErrors
          /\ UNCHANGED <<jobs, channels, videos>>
     /\ (w_pc = "finish_failed" /\ w_pc' # w_pc /\ w_exc \in UnhandledErrors) =>
          /\ jobs'[w_job].status = "failed"
          /\ OtherJobsSame
          /\ UNCHANGED <<channels, videos>>
          /\ w_pc' \in {"sync", "fail_download"}
     /\ (w_pc = "fail_download" /\ w_pc' # w_pc /\ w_exc \in UnhandledErrors) =>
          /\ w_pc' = "sync"
          /\ UNCHANGED <<jobs, channels, videos>>]_vars

\* the Job for the missing Channel has failed and a later Job has been taken up
MissingChannelJobFailed ==
  \E i, k \in DOMAIN jobs :
    /\ i < k
    /\ jobs[i].job_type = "index_channel"
    /\ jobs[i].payload.channel_id \notin DOMAIN channels
    /\ jobs[i].status = "failed"
    /\ jobs[i].error = StrExc("channel_not_found")
    /\ jobs[k].status \in {"running", "done"}

(* ------------------------------ shutdown: C18 --------------------------- *)
\* C18: the stop flag, once set, stays set; a worker that finds it set at the top
\* of an iteration leaves the loop without claiming a Job, and a worker that has
\* left the loop takes no further step; and, the worker being scheduled, setting
\* the flag leads to the worker leaving the loop.
StopLeadsToExit ==
  /\ [][/\ stop_event => stop_event'
        /\ (stop_event /\ w_pc = "top" /\ w_pc' # w_pc) => w_pc' = "exited"
        /\ w_pc = "exited" => UNCHANGED <<w_vars, jobs>>]_vars
  /\ (stop_event ~> w_pc = "exited")

\* the worker has left the loop on the flag while a Job is still pending
ExitedWithPendingJob ==
  /\ stop_event
  /\ w_pc = "exited"
  /\ \E i \in DOMAIN jobs : jobs[i].status = "pending"
  /\ \E i \in DOMAIN jobs : jobs[i].status \in Terminal

(* ------------------------------ shutdown: C19 --------------------------- *)
\* C19: when the process has ended after a shutdown request, no Job is in status
\* running: the Job that was in flight has reached done or failed.
ShutdownLeavesNoRunningJob ==
  w_pc = "ended" => \A i \in DOMAIN jobs : jobs[i].status # "running"

(* ------------------- sessions and Gateway calls: C20 -------------------- *)
\* the sessions that are open at the worker's position, by the with block that
\* opened them: process_next_job keeps the session of its dispatch open until the
\* handler has returned or raised
OpenSessions ==
  IF w_pc \in {"dispatch", "dl_fetch", "dl_mark", "dl_regen"}
  THEN {"process_next_job: dispatch"}
  ELSE {}
\* ytdlp.download_video has been called and has not returned
GatewayCallInFlight == w_pc = "dl_fetch"

\* C20: while a Gateway call is in flight no session of the core is open.
NoSessionAcrossGatewayCall == GatewayCallInFlight => OpenSessions = {}

(* ----------------------------- feed files: C21 -------------------------- *)
\* a file holds a whole document: its head first and its tail last
IsCompleteDocument(doc) ==
  Len(doc) >= 2 /\ doc[1][1] = "head" /\ doc[Len(doc)] = <<"tail">>

\* C21: at every moment, and so for every reader, the manual feed file and the
\* merged feed file of every channel hold a complete document.
FeedFilesAlwaysComplete ==
  /\ IsCompleteDocument(manual_feed)
  /\ \A f \in merged_files : IsIntStem(f.stem) => IsCompleteDocument(f.items)

(* -------------------------- two consumers: C22 -------------------------- *)
\* C22: the claim is unconditional. A thread that selected a Job marks it running
\* and goes on to dispatch it whatever happened to the Job since the select, so
\* that two threads can hold the same Job.
ClaimIsUnconditional ==
  [][\A k \in Consumers :
       (w_pc[k] = "update" /\ w_pc'[k] # "update")
         => (w_pc'[k] = "dispatch" /\ w_job'[k] = w_job[k]
             /\ jobs'[w_job[k]].status = "running")]_vars
\* both threads are about to run the handler of the same Job
BothDispatchSameJob ==
  /\ w_pc[1] = "dispatch"
  /\ w_pc[2] = "dispatch"
  /\ w_job[1] = w_job[2]
  /\ jobs[w_job[1]].status = "running"

(* --------------------------- the config file: C23 ----------------------- *)
\* the file without the entries the loop passes over
Skipped(e) == ~e.is_table \/ _normalize_url(e.url) = <<>>
WithoutSkipped(file) == [file EXCEPT !.entries = SelectSeq(@, LAMBDA e : ~Skipped(e))]

\* C23: from any table the program reaches, the importer run on a config file that
\* is missing, does not parse or has no feeds table returns 0, raises nothing and
\* leaves the table as it is; run on any file it does what it does on the same file
\* without the entries that are no tables or have an empty URL.
BadConfigIsSkipped ==
  \A file \in ConfigFileChoices :
    /\ file.kind # "ok" =>
         sync_channels_from_config_file(channels, file)
           = [channels |-> channels, added |-> 0, raised |-> FALSE]
    /\ sync_channels_from_config_file(channels, file)
         = sync_channels_from_config_file(channels, WithoutSkipped(file))
\* sync Jobs have run, one of them on a file whose entry for UrlB stands between
\* entries that are skipped, and the table holds that Channel with the name of its
\* entry
SkippedEntriesLeftTheRest ==
  /\ \A i \in DOMAIN jobs : jobs[i].status = "done"
  /\ \E i \in DOMAIN channels : channels[i].url = UrlB /\ channels[i].name = "b"
  /\ \A i \in DOMAIN channels : channels[i].url \in {UrlA, UrlB}

(* ----------------------- what a Job writes: C24 ------------------------- *)
\* the step wrote both feeds: the manual feed from the rows of the first
\* _load_manual_rows, the merged feeds from those of the second
BothFeedsWritten ==
  /\ \E meta \in FirstAnswers :
       manual_feed' = regenerate_manual_feed(downloads, HydrateVideos(downloads, videos, meta))
  /\ merged_files' = regenerate_merged_feeds(merged_files, channels, podsync_feeds,
                                             downloads, videos', now)

\* C24: the handler of a sync_podsync_feeds Job leaves the manual feed file as it is
\* and, when it returns, has written the merged feeds of the table the importer left;
\* the handler of a regenerate_manual_feed Job and a download_video Job that
\* succeeds write both the manual feed and the merged feeds.
SyncJobLeavesManualFeed ==
  [][/\ (w_pc = "dispatch" /\ w_pc' # w_pc /\ jobs[w_job].job_type = "sync_podsync_feeds")
          => /\ manual_feed' = manual_feed
             /\ w_pc' = "finish_done" =>
                  merged_files' = regenerate_merged_feeds(merged_files, channels',
                                                          podsync_feeds, downloads,
                                                          videos', now)
     /\ (w_pc = "dispatch" /\ w_pc' = "finish_done"
           /\ jobs[w_job].job_type = "regenerate_manual_feed") => BothFeedsWritten
     /\ (w_pc = "dl_regen" /\ w_pc' = "finish_done") => BothFeedsWritten]_vars
\* a sync Job is done and the manual feed file is not what a regeneration would
\* write from the rows: the sync Job did not write it
SyncJobDoneManualFeedStale ==
  /\ \E i \in DOMAIN jobs :
       jobs[i].job_type = "sync_podsync_feeds" /\ jobs[i].status = "done"
  /\ w_pc = "sync"
  /\ jobs[w_job].job_type = "sync_podsync_feeds"
  /\ manual_feed # regenerate_manual_feed(downloads, videos)

(* -------------------------- the periodic sync: C25 ---------------------- *)
\* the step ran the importer, and the merge unless one of the two raised
SyncRan ==
  \E cfg \in ConfigChoices :
    /\ channels' = sync_channels_from_podsync_config(channels, cfg).channels
    /\ \/ merged_files' = regenerate_merged_feeds(merged_files, channels', podsync_feeds,
                                                  downloads, videos', now)
       \/ merged_files' = merged_files

\* C25: at the end of every iteration, whatever became of the Job of that iteration,
\* the importer and the merge run when the interval is positive and has elapsed and
\* not otherwise; the loop then goes on to its next iteration whether or not the sync
\* raised, and the next sync is due one interval after this one. With an interval
\* of zero or less no sync is ever due.
PeriodicSyncIndependent ==
  [][/\ (w_pc = "sync" /\ w_pc' # w_pc) =>
          /\ w_pc' = "top"
          /\ jobs' = jobs
          /\ IF podsync_feed_sync_interval_seconds > 0 /\ now >= next_feed_sync_at
               THEN /\ SyncRan
                    /\ next_feed_sync_at' = now + podsync_feed_sync_interval_seconds
             ELSE UNCHANGED <<channels, merged_files, next_feed_sync_at>>
     /\ \A interval \in {0, 0 - podsync_feed_sync_interval_seconds} :
          ~SyncDueAt(interval, now, next_feed_sync_at)]_vars
\* the first iteration took the Job of an unknown type, which failed, and the sync
\* of that iteration has run: the next is due one interval later
SyncRanAfterFailedJob ==
  /\ Len(jobs) = 1
  /\ jobs[1].job_type = "bogus"
  /\ jobs[1].status = "failed"
  /\ w_pc = "top"
  /\ next_feed_sync_at = now + podsync_feed_sync_interval_seconds

(* --------------------------- stored errors: C26 ------------------------- *)
\* C26: the error text of every Job and of every Download is at most as long as the
\* error column is declared.
ErrorFitsColumn ==
  /\ \A i \in DOMAIN jobs : Len(jobs[i].error) <= ErrorColumnLen
  /\ \A v \in VideoIds : HasRow(downloads, v) => Len(downloads[v].error) <= ErrorColumnLen

(* ------------------------- destination names: C27 ----------------------- *)
\* p is the name the claim describes for base in a directory holding files
ClaimedName(base, p, files) ==
  \/ p = base /\ base \notin files
  \/ \E i \in FirstSuffix..LastSuffix :
       /\ p = Candidate(base, i)
       /\ base \in files
       /\ p \notin files
       /\ \A j \in FirstSuffix..(i - 1) : Candidate(base, j) \in files
  \/ /\ p = Candidate(base, TimestampSuffix)
     /\ base \in files
     /\ \A i \in FirstSuffix..LastSuffix : Candidate(base, i) \in files
\* base or one of its numbered candidates is free
HasFreeName(base, files) ==
  base \notin files \/ \E i \in FirstSuffix..LastSuffix : Candidate(base, i) \notin files

\* C27: the file of a download is moved to the name the claim describes: the base
\* name if free, else the numbered candidate with the smallest free number, else the
\* timestamp name; and unless the base name and all its numbered candidates exist,
\* that name is new in the media directory and every file that was there stays.
MoveNeverOverwrites ==
  [][(w_pc = "dl_fetch" /\ w_pc' = "dl_mark") =>
       /\ ClaimedName(build_filename(w_video.published_at, w_video.title,
                                     w_video.video_id, now), w_path', media_files)
       /\ media_files' = media_files \cup {w_path'}
       /\ HasFreeName(build_filename(w_video.published_at, w_video.title,
                                     w_video.video_id, now), media_files)
            => w_path' \notin media_files]_vars
\* the download was moved to the last numbered candidate, the base name and every
\* candidate before it being taken
LastCandidateUsed ==
  /\ w_pc = "dl_mark"
  /\ w_path = Candidate(BaseName, LastSuffix)
  /\ Taken(FirstSuffix..LastSuffix) \subseteq media_files

(* --------------------------- one consumer: C28 -------------------------- *)
Running == {i \in DOMAIN jobs : jobs[i].status = "running"}

\* C28: at most one Job is running in every state, and every Job is dispatched at
\* most once: it is marked running from pending only, never returns to pending,
\* and keeps the status it ended with.
SingleConsumerIsSafe ==
  /\ [](Cardinality(Running) <= 1)
  /\ [][\A i \in DOMAIN jobs :
          /\ (jobs'[i].status = "running" /\ jobs[i].status # "running")
               => jobs[i].status = "pending"
          /\ jobs[i].status # "pending" => jobs'[i].status # "pending"
          /\ jobs[i].status \in Terminal => jobs'[i].status = jobs[i].status]_vars

(* -------------------------- done downloads: C29 ------------------------- *)
\* C29: every Download that is done names its media file, and that file is in the
\* media directory: the move came first. While the worker is in
\* ytdlp.download_video, and until it marks the Download done, the Download of the
\* video is running.
DoneDownloadHasFile ==
  /\ \A v \in VideoIds :
       (HasRow(downloads, v) /\ downloads[v].status = "done")
         => /\ downloads[v].filename # NoFilename
            /\ downloads[v].filename \in media_files
  /\ w_pc \in {"dl_fetch", "dl_mark"} => downloads[w_video.video_id].status = "running"
\* the worker has moved a file and marked its Download done
DownloadJustMarkedDone ==
  /\ w_pc = "dl_regen"
  /\ downloads[w_video.video_id].status = "done"
  /\ downloads[w_video.video_id].filename = w_path

(* ------------------------- done is terminal: C30 ------------------------ *)
\* C30: no step takes a Download that is done to another status.
DoneIsTerminal ==
  [][\A v \in VideoIds :
       (HasRow(downloads, v) /\ downloads[v].status = "done")
         => downloads'[v].status = "done"]_vars

(* ---------------------- one download per video: C31 --------------------- *)
\* the download_video Jobs for video id v that wait or run
ActiveDownloadJobs(v) ==
  {i \in DOMAIN jobs : /\ jobs[i].job_type = "download_video"
                       /\ jobs[i].payload.video_id = v
                       /\ jobs[i].status \in {"pending", "running"}}

\* C31: for every video id at most one download_video Job is pending or running,
\* whatever the enqueue requests in flight and the worker do.
OneActiveDownloadJobPerVideo ==
  \A v \in VideoIds : Cardinality(ActiveDownloadJobs(v)) <= 1

(* --------------------------- index upserts: C32 ------------------------- *)
\* no two rows of the videos table have the same (channel, external id)
VideoPairsUnique ==
  \A a, b \in videos : (a.channel_id = b.channel_id /\ a.video_id = b.video_id) => a = b

\* C32: the handler of an index_channel Job for a Channel of the table, whatever
\* the Gateway lists, returns and stamps the Channel's last-indexed time, and the
\* videos table never holds a (channel, external id) pair twice.
IndexJobUpserts ==
  [][/\ VideoPairsUnique
     /\ (/\ w_pc = "dispatch"
         /\ jobs[w_job].job_type = "index_channel"
         /\ jobs[w_job].payload.channel_id \in DOMAIN channels
         /\ w_pc' # w_pc
         /\ w_exc' # "command_failed")
          => /\ w_pc' = "finish_done"
             /\ channels'[jobs[w_job].payload.channel_id].last_indexed_at = now]_vars

(* ------------------------- the manual feed: C33 ------------------------- *)
\* the video ids with a done Download that has a filename and an indexed Video
ManualFeedIds(dl, vs) ==
  {v \in VideoIds : /\ dl[v].status = "done"
                    /\ dl[v].filename # NoFilename
                    /\ \E r \in vs : r.video_id = v}

\* C33: whenever the manual feed is written, it holds one item for each done
\* Download with a filename whose video id is indexed, and no guid twice.
ManualFeedOneItemPerDownload ==
  [][manual_feed' # manual_feed =>
       /\ {manual_feed'[i].guid : i \in DOMAIN manual_feed'} = ManualFeedIds(downloads, videos')
       /\ \A i, j \in DOMAIN manual_feed' :
            manual_feed'[i].guid = manual_feed'[j].guid => i = j]_vars
(* -------------------- the whole-string fallback: C34 -------------------- *)
\* the parts of a token that re.split leaves, other than the token itself, which
\* VIDEO_ID_RE.fullmatch accepts
ProperIdParts(text) == {i \in IdPartStarts(text) : PartFrom(text, i) # text}

\* the sync Job has run over the third-party feed
TokenSyncRan == w_pc \in {"finish_done", "finish_failed", "top"}

\* C34 as first stated: for every input string that as a whole matches the general
\* id pattern, extract_video_id returns the input unchanged.
WholeStringIdReturned ==
  \A text \in GuidTexts : FullMatchId(text) => extract_video_id(text) = text

\* C34: for every input string that as a whole matches the general id pattern, is
\* at most 11 characters long and, when shorter than 11, has no part between "_"
\* and "-" separators of 6 or more characters other than itself,
\* extract_video_id returns the input unchanged.
ShortWholeStringIdReturned ==
  \A text \in GuidTexts :
    /\ FullMatchId(text)
    /\ Len(text) <= YoutubeIdLen
    /\ Len(text) < YoutubeIdLen => ProperIdParts(text) = {}
    => extract_video_id(text) = text

\* the sync Job ran over a guid of short parts only, which the fallback returns
FallbackReturnedToken ==
  /\ TokenSyncRan
  /\ \E text \in GuidTexts :
       /\ FullMatchId(text)
       /\ Len(text) < YoutubeIdLen
       /\ IdPartStarts(text) = {}
       /\ PartStarts(text) # {}
       /\ extract_video_id(text) = text

(* ------------------ the hydration budget of a request: C35 --------------- *)
\* C35: a list_videos request makes at most 20 Gateway lookups, whether the
\* lookups succeed or fail.
LookupsWithinBudget ==
  \A h \in Handlers : http[h].phase = "hydrate" => http[h].lookups <= HydrateBudget

(* ------------------------ every Job is finished: C36 --------------------- *)
JobIs(i, statuses) == i \in DOMAIN jobs /\ jobs[i].status \in statuses

\* C36: while the loop keeps running and every handler and periodic sync returns
\* or raises, every pending Job is eventually done or failed, whatever is inserted
\* behind it and however often the periodic sync runs, and no Job stays running
\* forever.
EveryJobFinishes ==
  \A i \in 1..MaxJobs :
    JobIs(i, {"pending", "running"}) ~> JobIs(i, {"done", "failed"})

\* a Job inserted behind a waiting one while the worker was busy has been
\* finished, after a periodic sync
LateJobFinished ==
  /\ \A i \in DOMAIN jobs : jobs[i].status \in {"done", "failed"}
  /\ \E i \in DOMAIN jobs :
       /\ i > 1
       /\ jobs[i].job_type = "download_video"
       /\ jobs[i].payload.video_id = Vid2
  /\ next_feed_sync_at > podsync_feed_sync_interval_seconds

(* ------------- two config entries for one normalized URL: C37 ------------ *)
\* the config has two feed entries whose URLs normalize to the same URL
TwoEntriesOneUrl(cfg) ==
  /\ Len(cfg) = 2
  /\ _normalize_url(cfg[1].url) # <<>>
  /\ _normalize_url(cfg[1].url) = _normalize_url(cfg[2].url)

\* C37: when the config holds two feed entries whose URLs normalize to the same
\* URL and no Channel has that URL yet, one run of the importer creates exactly
\* one Channel, returns the count 1 and raises no error.
DuplicateEntriesMakeOneChannel ==
  \A cfg \in ChannelConfigChoices :
    TwoEntriesOneUrl(cfg) /\ _normalize_url(cfg[1].url) \notin TableUrls(channels) =>
      LET run == sync_channels_from_podsync_config(channels, cfg)
      IN /\ ~run.raised
         /\ run.added = 1
         /\ Len(run.channels) = Len(channels) + 1

====
